---- MODULE Spec2Model ----
(***************************************************************************)
(* Model of the agentic chat engine of the AI copilot: the session manager *)
(* (backend/src/apiserver/ai/session/manager.go), the tool registry and    *)
(* its secured tools (ai/tools), the chat loop AIServer.StreamChat with    *)
(* executeToolCall (ai/server.go) and the SSE endpoint that drives it.     *)
(*                                                                         *)
(* Two specifications share the session-manager operators:                 *)
(*   Spec    one chat request: SSE handler, StreamChat, its provider       *)
(*           stream, the approval endpoint, cancellation and eviction;     *)
(*   SpecSM  the session manager under arbitrary GetOrCreate, clock and    *)
(*           CleanupExpired calls.                                         *)
(***************************************************************************)
EXTENDS Naturals, Integers, Sequences, FiniteSets, TLC

VARIABLES
    \* ---- session manager (manager.go) ----
    sessions,      \* SessionManager.sessions: session id -> Session
    resultCh,      \* PendingToolCall.ResultCh of every pending made: tool call id -> buffered decisions
    now,           \* the wall clock read by time.Now()
    expiredIDs,    \* CleanupExpired: ids collected under the read lock
    cleanupPc,     \* CleanupExpired: "idle" | "sweep" (between the two lock phases)
    lastCall,      \* observation (SpecSM): the last GetOrCreate call and what it returned
    created,       \* observation (SpecSM): <<id, identity>> whenever an identity created the session it asked for
    \* ---- one chat request (server.go) ----
    reqMode,       \* ChatRequest.Mode as sent by the client
    mode,          \* StreamChat's normalised mode
    pc,            \* position of the request's goroutine
    iteration,     \* loop variable of the agentic loop
    toolDefs,      \* tool definitions fetched before the loop
    eventCh,       \* events the provider worker still delivers on eventCh
    errCh,         \* what the blocking read of errCh yields for this turn
    textContent,   \* whether text was accumulated in this turn
    currentToolCall, \* the in-flight tool_use block (NoCall when nil)
    toolCalls,     \* tool calls committed in this turn
    stopReason,    \* stop reason captured in this turn
    tcIdx,         \* index of the tool call being executed
    toolResults,   \* tool_result blocks built in this turn
    ctxDone,       \* whether the request context is cancelled
    retErr,        \* what StreamChat returned: "none" (running) | "nil" | "err"
    sessID,        \* sess.ID, the session StreamChat works on
    nextId,        \* last tool_use id handed out by the provider
    sse,           \* observation: frames written to the SSE response
    providerLog,   \* observation: the tool definitions of every provider call
    executed,      \* observation: every Tool.Execute invocation
    outcomes,      \* observation: how executeToolCall ended for each tool call
    received,      \* observation: decisions the engine took from a result channel
    cancelledAt,   \* observation: where the engine was suspended when the context was cancelled
    providerFailed, \* observation: a provider call of this request failed
    \* --- the tool registry (tools/registry.go) ---
    registry,      \* ToolRegistry.tools: the names that are registered
    listed,        \* observation: what ListForMode returned, per mode, since the last Register
    probed,        \* observation: the last Get and what the SecuredTool answered
    \* --- one StreamChat call of the provider adapter (provider/anthropic.go) ---
    workerPc,      \* position of the adapter's goroutine
    provEventCh,   \* eventCh: [buf, closed]
    provErrCh,     \* errCh: [buf, closed]
    body,          \* lines of the response body not yet scanned
    scanErr,       \* scanner.Err() is non-nil
    provCtxDone,   \* the context given to the adapter is cancelled
    consumerPc,    \* position of the consumer (server.go:144-230)
    consumerErr,   \* what the consumer read from errCh
    errSends,      \* observation: number of values sent on errCh
    path,          \* observation: the path the goroutine returned on
    frames,        \* observation: the lines the provider streamed in this call
    delivered,     \* observation: the events the consumer took from eventCh
    \* --- the rate limiter of the HTTP handlers (server_test.go:783-818) ---
    requests,      \* rateLimiter.requests: per key, the times of the recorded requests
    admitted,      \* observation: how many requests allow() admitted, per key and time
    \* --- Session.Messages as a Go slice (manager.go:184-240) ---
    arrays,        \* the backing arrays allocated so far, each a sequence of Messages
    msgSlice,      \* session id -> the slice header held in Session.Messages
    snapshot,      \* what a caller of GetMessages holds, and what it saw on return
    \* --- the manager's callers as goroutines, and its locks (manager.go:85-331) ---
    threads,       \* goroutine -> the call it is in and its locals
    mu,            \* sm.mu, every Session.mu, and the Session objects no longer in the map
    addCalls       \* observation: the messages AddMessage was called with

smVars == <<sessions, resultCh, now, expiredIDs, cleanupPc, lastCall, created>>
chatVars == <<reqMode, mode, pc, iteration, toolDefs, eventCh, errCh, textContent,
              currentToolCall, toolCalls, stopReason, tcIdx, toolResults, ctxDone,
              retErr, sessID, nextId, sse, providerLog, executed, outcomes, received,
              cancelledAt, providerFailed>>
toolVars == <<registry, listed, probed>>
provVars == <<workerPc, provEventCh, provErrCh, body, scanErr, provCtxDone,
              consumerPc, consumerErr, errSends, path, frames, delivered>>
\* What the range over eventCh works on (server.go:138-226), and the rest of
\* the request's state.
rangeVars == <<textContent, currentToolCall, toolCalls, stopReason, sse>>
loopVars == <<reqMode, mode, pc, iteration, toolDefs, eventCh, errCh, tcIdx,
              toolResults, ctxDone, retErr, sessID, nextId, providerLog, executed,
              outcomes, received, cancelledAt, providerFailed>>
gateVars == <<requests, admitted>>
sliceVars == <<arrays, msgSlice, snapshot>>
lockVars == <<threads, mu, addCalls>>
auxVars == <<toolVars, provVars, gateVars, sliceVars, lockVars>>
vars == <<smVars, chatVars, auxVars>>

(***************************************************************************)
(* Bounds of the model.  The three program constants below are scaled down *)
(* from the source (20, 1000, 200 and 30 min) so that the cap, the LRU     *)
(* eviction, the trimming and the expiry all happen within the bounds.     *)
(***************************************************************************)
maxAgenticLoopIterations == 2   \* server.go:33 sets 20
MaxSessions == 2                \* manager.go:33 sets 1000
MaxMessagesPerSession == 4      \* manager.go:37 sets 200
SessionTimeout == 1             \* manager.go:30 sets 30 minutes; here in clock ticks
MaxTime == 2                    \* the clock stops advancing here
MaxToolUses == 2                \* tool_use blocks the provider emits in one request
MaxFragments == 2

ChanCap == 1                    \* make(chan session.ToolCallDecision, 1)

ChatModeAsk == 1
ChatModeAgent == 2

\* Mode values a client can send: 0 (unset), Ask, Agent and another integer.
RequestModes == {0, ChatModeAsk, ChatModeAgent, 3}

\* The mode GetOrCreate's callers pass (StreamChat passes its normalised
\* mode); the manager stores it and never reads it.
CallerModes == {ChatModeAgent}

\* Caller identities; "" is the single-tenant (unauthenticated) caller.
UserIDs == {"", "a", "b"}

\* Session ids a client can send.  "s-b" is also what GetOrCreate derives
\* from "s" for identity "b".
SessionIDs == {"s", "s-b"}

(***************************************************************************)
(* Tools (ai/tools): the registry of a server holds one read-only and one   *)
(* mutating built-in tool; the model may also name a tool that is not      *)
(* registered.  ToolUniverse are the tools that can be registered at all.  *)
(***************************************************************************)
RegisteredTools == {"list_runs", "delete_run"}
RequestableTools == RegisteredTools \cup {"bogus_tool"}
ToolUniverse == {"list_runs", "get_run", "delete_run"}

IsReadOnly(name) == name \in {"list_runs", "get_run"}

NeedsConfirmationInAnyMode(name, m) == ~IsReadOnly(name)
NeedsConfirmation(name, m) ==
    IF IsReadOnly(name) THEN FALSE ELSE m = ChatModeAgent

IsBlocked(name, m) ==
    IF IsReadOnly(name) THEN FALSE ELSE m = ChatModeAsk

RegistryGet(name) == name \in registry

ListForModeAll(m) == registry
ListForMode(m) ==
    {t \in registry : ~(m = ChatModeAsk /\ ~IsReadOnly(t))}

ListToolNames == registry

\* The orders in which the range over the map may visit the entries.
Orders(S) ==
    {o \in [1..Cardinality(S) -> S] : \A i, j \in DOMAIN o : o[i] = o[j] => i = j}

\* The slice ListForMode builds when the map is visited in that order
\* (registry.go:58-68): one definition per entry that is not skipped.
ListDefsTwice(order, m) ==
    SelectSeq(order \o order, LAMBDA t : t \in ListForMode(m))
ListDefs(order, m) ==
    SelectSeq(order, LAMBDA t : t \in ListForMode(m))

NotListed == [done |-> FALSE, defs |-> <<>>]
NotProbed ==
    [name |-> "", mode |-> 0, found |-> FALSE, readOnly |-> FALSE,
     blocked |-> FALSE, confirm |-> FALSE]

\* Channels of the provider adapter: a buffer and whether it is closed.
NewChan == [buf |-> <<>>, closed |-> FALSE]

\* No call of the provider adapter is modelled in detail: its goroutine has
\* not been started.
InitProvider ==
    /\ workerPc = "marshal"
    /\ provEventCh = NewChan
    /\ provErrCh = NewChan
    /\ body = <<>>
    /\ scanErr = FALSE
    /\ provCtxDone = FALSE
    /\ consumerPc = "range"
    /\ consumerErr = "none"
    /\ errSends = 0
    /\ path = "none"
    /\ frames = <<>>
    /\ delivered = <<>>

\* The keys of the rate limiter: an identity, or the remote address of a
\* request without one (server_test.go:870-874).
GateUsers == {"", "a"}
RemoteAddr == "addr"
RateKeys == {RemoteAddr} \cup (GateUsers \ {""})

\* newRateLimiter (server_test.go:791-795)
InitGate ==
    /\ requests = <<>>
    /\ admitted = [k \in RateKeys, t \in 0..MaxTime |-> 0]

\* No session, no array, no snapshot handed out.
NoSnapshot == [id |-> "", live |-> FALSE, slice |-> [arr |-> 0, off |-> 0, len |-> 0, cap |-> 0],
               taken |-> <<>>, added |-> FALSE, trimmed |-> FALSE]
InitSlices ==
    /\ arrays = <<>>
    /\ msgSlice = <<>>
    /\ snapshot = NoSnapshot

\* No goroutine in a call, every lock free.
NoThreads == <<>>
FreeLocks == [w |-> 0, r |-> {}, q |-> {}, s |-> {}, gen |-> [x \in {} |-> 0],
              orph |-> [x \in {} |-> x]]
InitLocks ==
    /\ threads = NoThreads
    /\ mu = FreeLocks
    /\ addCalls = <<>>

\* The registry of a running server, after RegisterAll.
InitTools ==
    /\ registry = RegisteredTools
    /\ listed = [m \in RequestModes |-> NotListed]
    /\ probed = NotProbed

isToolReadOnly(name) == IF RegistryGet(name) THEN IsReadOnly(name) ELSE FALSE

(***************************************************************************)
(* Session manager (session/manager.go).  Each operation is an operator    *)
(* from the store (sessions, channels) to the store after the call and     *)
(* the value returned.                                                     *)
(***************************************************************************)
NewSession(id, userID, m, t) ==
    [ID |-> id, UserID |-> userID, Messages |-> <<>>, Mode |-> m,
     PendingConfirmations |-> {}, LastAccessedAt |-> t]

Put(ss, id, s) == [x \in DOMAIN ss \cup {id} |-> IF x = id THEN s ELSE ss[x]]
Delete(ss, id) == [x \in DOMAIN ss \ {id} |-> ss[x]]

\* select { case p.ResultCh <- decision: default: } for every pending in P
SendReplacing(ch, P, approved) ==
    [c \in DOMAIN ch |-> IF c \in P THEN <<approved>> ELSE ch[c]]
SendNonBlocking(ch, P, approved) ==
    [c \in DOMAIN ch |->
        IF c \in P /\ Len(ch[c]) < ChanCap THEN Append(ch[c], approved) ELSE ch[c]]

\* The sessions evictLRU can pick: the map is ranged over in an unspecified
\* order and a later session replaces the candidate only when strictly older.
LRUCandidates(ss) ==
    {id \in DOMAIN ss : \A o \in DOMAIN ss : ss[id].LastAccessedAt <= ss[o].LastAccessedAt}

evictLRU(ss, ch, victim) ==
    IF victim \in DOMAIN ss
    THEN [sessions |-> Delete(ss, victim),
          resultCh |-> SendNonBlocking(ch, ss[victim].PendingConfirmations, FALSE)]
    ELSE [sessions |-> ss, resultCh |-> ch]

\* manager.go:91, the ownership test of GetOrCreate
OwnerConflictNever(s, userID) == FALSE
OwnerConflict(s, userID) == s.UserID # "" /\ userID # "" /\ s.UserID # userID

DerivedID(sessionID, userID) == sessionID \o "-" \o userID

TouchStartsOver(ss, id, m, t) == [ss EXCEPT ![id] = NewSession(id, @.UserID, m, t)]
Touch(ss, id, m, t) == [ss EXCEPT ![id].LastAccessedAt = t, ![id].Mode = m]

GetOrCreate(ss, ch, sessionID, m, userID, t, victim) ==
    IF sessionID \in DOMAIN ss
    THEN IF OwnerConflict(ss[sessionID], userID)
         THEN LET d == DerivedID(sessionID, userID) IN
              IF d \in DOMAIN ss
              THEN [sessions |-> Touch(ss, d, m, t), resultCh |-> ch, id |-> d,
                    isNew |-> FALSE]
              ELSE [sessions |-> Put(ss, d, NewSession(d, userID, m, t)),
                    resultCh |-> ch, id |-> d, isNew |-> TRUE]
         ELSE [sessions |-> Touch(ss, sessionID, m, t), resultCh |-> ch,
               id |-> sessionID, isNew |-> FALSE]
    ELSE LET ev == IF Cardinality(DOMAIN ss) >= MaxSessions
                   THEN evictLRU(ss, ch, victim)
                   ELSE [sessions |-> ss, resultCh |-> ch]
         IN [sessions |-> Put(ev.sessions, sessionID, NewSession(sessionID, userID, m, t)),
             resultCh |-> ev.resultCh, id |-> sessionID, isNew |-> TRUE]

\* Get (manager.go:170-181): sets the last access time of a stored session.
Get(ss, id, t) == IF id \in DOMAIN ss THEN [ss EXCEPT ![id].LastAccessedAt = t] ELSE ss

\* GetMessages: the snapshot, or NotFound
NotFound == "session not found"
GetMessages(ss, id) == IF id \in DOMAIN ss THEN ss[id].Messages ELSE NotFound

TrimKeepsOldest(msgs) ==
    IF Len(msgs) > MaxMessagesPerSession
    THEN SubSeq(msgs, 1, MaxMessagesPerSession)
    ELSE msgs
Trim(msgs) ==
    IF Len(msgs) > MaxMessagesPerSession
    THEN SubSeq(msgs, Len(msgs) - MaxMessagesPerSession + 1, Len(msgs))
    ELSE msgs

\* AddMessage: an unknown session is an error the callers only log
AddMessageOverwrites(ss, id, msg, t) ==
    IF id \in DOMAIN ss
    THEN [ss EXCEPT ![id].Messages = <<msg>>, ![id].LastAccessedAt = t]
    ELSE ss
AddMessage(ss, id, msg, t) ==
    IF id \in DOMAIN ss
    THEN [ss EXCEPT ![id].Messages = Trim(Append(@, msg)), ![id].LastAccessedAt = t]
    ELSE ss

AddPendingConfirmationCreates(ss, id, tcid) ==
    IF id \in DOMAIN ss
    THEN [ss EXCEPT ![id].PendingConfirmations = @ \cup {tcid}]
    ELSE Put(ss, id, [NewSession(id, "", ChatModeAgent, 0) EXCEPT
                         !.PendingConfirmations = {tcid}])
AddPendingConfirmation(ss, id, tcid) ==
    IF id \in DOMAIN ss
    THEN [ss EXCEPT ![id].PendingConfirmations = @ \cup {tcid}]
    ELSE ss

\* ResolveConfirmation: remove the entry, then the non-blocking send
ResolveConfirmationKeepsEntry(ss, ch, id, tcid, approved) ==
    IF id \in DOMAIN ss /\ tcid \in ss[id].PendingConfirmations
    THEN [sessions |-> ss,
          resultCh |-> SendNonBlocking(ch, {tcid}, approved), ok |-> TRUE]
    ELSE [sessions |-> ss, resultCh |-> ch, ok |-> FALSE]
ResolveConfirmation(ss, ch, id, tcid, approved) ==
    IF id \in DOMAIN ss /\ tcid \in ss[id].PendingConfirmations
    THEN [sessions |-> [ss EXCEPT ![id].PendingConfirmations = @ \ {tcid}],
          resultCh |-> SendNonBlocking(ch, {tcid}, approved), ok |-> TRUE]
    ELSE [sessions |-> ss, resultCh |-> ch, ok |-> FALSE]

Expired(s, t) == t - s.LastAccessedAt > SessionTimeout

(***************************************************************************)
(* Session manager as a state machine (SpecSM): any caller may call        *)
(* GetOrCreate at any time, the clock advances, and the background loop    *)
(* runs CleanupExpired in its two lock phases.                             *)
(***************************************************************************)
EmptyMap == [x \in {} |-> x]

NoCallYet ==
    [op |-> "none", sid |-> "", user |-> "", id |-> "", owner |-> "",
     isNew |-> FALSE, preStored |-> FALSE, preOwner |-> ""]

InitSM ==
    /\ sessions = EmptyMap
    /\ resultCh = EmptyMap
    /\ now = 0
    /\ expiredIDs = {}
    /\ cleanupPc = "idle"
    /\ lastCall = NoCallYet
    /\ created = {}

\* What an observer records of one GetOrCreate call with result r.
ObserveGetOrCreate(r, sessionID, userID) ==
    /\ lastCall' = [op |-> "GetOrCreate", sid |-> sessionID, user |-> userID,
                    id |-> r.id, owner |-> r.sessions[r.id].UserID,
                    isNew |-> r.isNew,
                    preStored |-> sessionID \in DOMAIN sessions,
                    preOwner |-> IF sessionID \in DOMAIN sessions
                                 THEN sessions[sessionID].UserID ELSE ""]
    /\ created' = IF r.isNew /\ r.id = sessionID /\ userID # ""
                  THEN created \cup {<<r.id, userID>>} ELSE created

Victims(ss) == IF DOMAIN ss = {} THEN {""} ELSE LRUCandidates(ss)

\* GetOrCreate called by any client with any session id (manager.go:85-137).
SMGetOrCreate ==
    \E sessionID \in SessionIDs, m \in CallerModes, userID \in UserIDs :
      \E victim \in Victims(sessions) :
        LET r == GetOrCreate(sessions, resultCh, sessionID, m, userID, now, victim) IN
        /\ sessions' = r.sessions
        /\ resultCh' = r.resultCh
        /\ ObserveGetOrCreate(r, sessionID, userID)
        /\ UNCHANGED <<now, expiredIDs, cleanupPc>>

Tick ==
    /\ now < MaxTime
    /\ now' = now + 1
    /\ UNCHANGED <<sessions, resultCh, expiredIDs, cleanupPc, lastCall, created>>

\* CleanupExpired, first phase (manager.go:290-307): collect under the read lock.
CleanupScan ==
    /\ cleanupPc = "idle"
    /\ LET ids == {id \in DOMAIN sessions : Expired(sessions[id], now)} IN
       /\ expiredIDs' = ids
       /\ cleanupPc' = IF ids = {} THEN "idle" ELSE "sweep"
    /\ UNCHANGED <<sessions, resultCh, now, lastCall, created>>

\* CleanupExpired, second phase (manager.go:309-330): re-check and remove.
SweepRemovedWithoutRecheck(ss, ids, t) == ids \cap DOMAIN ss
SweepRemoved(ss, ids, t) == {id \in ids \cap DOMAIN ss : Expired(ss[id], t)}

CleanupSweep ==
    /\ cleanupPc = "sweep"
    /\ LET gone == SweepRemoved(sessions, expiredIDs, now)
           pend == UNION {sessions[id].PendingConfirmations : id \in gone}
       IN /\ sessions' = [x \in DOMAIN sessions \ gone |-> sessions[x]]
          /\ resultCh' = SendNonBlocking(resultCh, pend, FALSE)
    /\ expiredIDs' = {}
    /\ cleanupPc' = "idle"
    /\ UNCHANGED <<now, lastCall, created>>

NextSM ==
    \/ SMGetOrCreate /\ UNCHANGED <<chatVars, auxVars>>
    \/ Tick /\ UNCHANGED <<chatVars, auxVars>>
    \/ CleanupScan /\ UNCHANGED <<chatVars, auxVars>>
    \/ CleanupSweep /\ UNCHANGED <<chatVars, auxVars>>


(***************************************************************************)
(* One chat request (Spec): the SSE handler calls StreamChat, which runs   *)
(* the agentic loop against the provider stream.  The environment is the   *)
(* provider, the client (approval endpoint, disconnect) and the eviction   *)
(* of this request's session.                                              *)
(***************************************************************************)
ReqSessionID == "s"
ReqUserID == "a"

NoCall == [ID |-> 0, Name |-> ""]

\* A frame of the SSE response; by = "engine" for sendEvent, "handler" for
\* what NewSSEHandler writes itself; cancelled = the context was already
\* cancelled when the frame was written.
Frame(type, id, args, success, code, by) ==
    [type |-> type, id |-> id, args |-> args, success |-> success, code |-> code,
     by |-> by, cancelled |-> ctxDone, iter |-> iteration]

sendEventInFront(type, id, args, success, code) ==
    <<Frame(type, id, args, success, code, "engine")>> \o sse
sendEvent(type, id, args, success, code) ==
    Append(sse, Frame(type, id, args, success, code, "engine"))

\* StreamEvents of the provider adapter.
ToolUseStart(id, name) ==
    [Type |-> "content_block_start", Sub |-> "tool_use", ID |-> id, Name |-> name, Stop |-> ""]
TextDelta ==
    [Type |-> "content_block_delta", Sub |-> "text_delta", ID |-> 0, Name |-> "", Stop |-> ""]
BlockStop ==
    [Type |-> "content_block_stop", Sub |-> "", ID |-> 0, Name |-> "", Stop |-> ""]
MessageDelta(stop) ==
    [Type |-> "message_delta", Sub |-> "", ID |-> 0, Name |-> "", Stop |-> stop]

\* The events of one model turn: optional text, then one tool_use block per
\* requested tool (ids first+1, first+2, ...), then the stop reason.
TurnEvents(text, names, stop, first) ==
    (IF text THEN <<TextDelta>> ELSE <<>>)
    \o [i \in 1..(2 * Len(names)) |->
          IF i % 2 = 1 THEN ToolUseStart(first + (i + 1) \div 2, names[(i + 1) \div 2])
          ELSE BlockStop]
    \o <<MessageDelta(stop)>>

ToolNameSeqs == UNION {[1..n -> RequestableTools] : n \in 0..MaxToolUses}
StopReasons == {"end_turn", "tool_use"}

\* Messages of the session log.
TextBlock == [Type |-> "text", ID |-> 0, IsError |-> FALSE]
ToolUseBlock(id) == [Type |-> "tool_use", ID |-> id, IsError |-> FALSE]
ToolResultBlock(id, isError) == [Type |-> "tool_result", ID |-> id, IsError |-> isError]
Message(role, blocks) == [Role |-> role, Blocks |-> blocks]

\* server.go:92-96
NormalizeModeIdentity(m) == m
NormalizeMode(m) ==
    IF m # ChatModeAsk /\ m # ChatModeAgent THEN ChatModeAsk ELSE m

\* server.go:121, the loop condition
LoopContinuesOffByOne(i) == i <= maxAgenticLoopIterations
LoopContinues(i) == i < maxAgenticLoopIterations

\* server.go:358, whether the decision read from the channel lets the call proceed
DecisionProceedsAlways(d) == TRUE
DecisionProceeds(d) == d

InitChatVars ==
    /\ mode = 0
    /\ pc = "start"
    /\ iteration = 0
    /\ toolDefs = {}
    /\ eventCh = <<>>
    /\ errCh = "nil"
    /\ textContent = FALSE
    /\ currentToolCall = NoCall
    /\ toolCalls = <<>>
    /\ stopReason = ""
    /\ tcIdx = 0
    /\ toolResults = <<>>
    /\ ctxDone = FALSE
    /\ retErr = "none"
    /\ sessID = ""
    /\ nextId = 0
    /\ sse = <<>>
    /\ providerLog = <<>>
    /\ executed = {}
    /\ outcomes = <<>>
    /\ received = {}
    /\ cancelledAt = "never"
    /\ providerFailed = FALSE

Init ==
    /\ sessions = EmptyMap
    /\ resultCh = EmptyMap
    /\ now = 0
    /\ expiredIDs = {}
    /\ cleanupPc = "idle"
    /\ lastCall = NoCallYet
    /\ created = {}
    /\ reqMode \in RequestModes
    /\ InitChatVars
    /\ InitTools
    /\ InitProvider
    /\ InitGate
    /\ InitSlices
    /\ InitLocks

smRest == UNCHANGED <<now, expiredIDs, cleanupPc, lastCall, created>>

\* StreamChat up to the loop (server.go:92-119).
Start ==
    /\ pc = "start"
    /\ \E victim \in Victims(sessions) :
         LET m == NormalizeMode(reqMode)
             r == GetOrCreate(sessions, resultCh, ReqSessionID, m, ReqUserID, now, victim)
         IN /\ mode' = m
            /\ sessID' = r.id
            /\ sessions' = AddMessage(r.sessions, r.id, Message("user", <<TextBlock>>), now)
            /\ resultCh' = r.resultCh
            /\ toolDefs' = ListForMode(m)
    /\ sse' = sendEvent("session_metadata", 0, FALSE, FALSE, "")
    /\ pc' = "loop"
    /\ smRest
    /\ UNCHANGED <<reqMode, iteration, eventCh, errCh, textContent, currentToolCall,
                   toolCalls, stopReason, tcIdx, toolResults, ctxDone, retErr, nextId,
                   providerLog, executed, outcomes, received, cancelledAt, providerFailed>>

\* The for statement finds the cap reached: StreamChat returns nil (server.go:121, 296).
LoopExit ==
    /\ pc = "loop"
    /\ ~LoopContinues(iteration)
    /\ retErr' = "nil"
    /\ pc' = "returned"
    /\ UNCHANGED <<smVars, reqMode, mode, iteration, toolDefs, eventCh, errCh, textContent,
                   currentToolCall, toolCalls, stopReason, tcIdx, toolResults, ctxDone,
                   sessID, nextId, sse, providerLog, executed, outcomes, received,
                   cancelledAt, providerFailed>>

\* GetMessages fails because the session is gone (server.go:122-134).
LoopGetMessagesFails ==
    /\ pc = "loop"
    /\ LoopContinues(iteration)
    /\ GetMessages(sessions, sessID) = NotFound
    /\ sse' = sendEvent("progress", 0, FALSE, FALSE, "")
    /\ retErr' = "err"
    /\ pc' = "returned"
    /\ UNCHANGED <<smVars, reqMode, mode, iteration, toolDefs, eventCh, errCh, textContent,
                   currentToolCall, toolCalls, stopReason, tcIdx, toolResults, ctxDone,
                   sessID, nextId, providerLog, executed, outcomes, received,
                   cancelledAt, providerFailed>>

\* progress, snapshot and the provider call (server.go:122-142).  The provider
\* answers with any turn; a failing call delivers any prefix of its events
\* and then the error.  With the context already cancelled the request
\* itself fails (anthropic.go:98-112).
ProviderCall ==
    /\ pc = "loop"
    /\ LoopContinues(iteration)
    /\ GetMessages(sessions, sessID) # NotFound
    /\ sse' = sendEvent("progress", 0, FALSE, FALSE, "")
    /\ providerLog' = Append(providerLog, toolDefs)
    /\ \E text \in BOOLEAN, names \in ToolNameSeqs, stop \in StopReasons, fails \in BOOLEAN :
         LET full == TurnEvents(text, names, stop, nextId) IN
         /\ ctxDone => fails
         /\ nextId + Len(names) <= MaxToolUses
         /\ \E cut \in (IF ctxDone THEN {0} ELSE IF fails THEN 0..Len(full) ELSE {Len(full)}) :
              eventCh' = SubSeq(full, 1, cut)
         /\ errCh' = IF fails THEN "err" ELSE "nil"
         /\ nextId' = nextId + Len(names)
    /\ textContent' = FALSE
    /\ currentToolCall' = NoCall
    /\ toolCalls' = <<>>
    /\ stopReason' = ""
    /\ pc' = "drain"
    /\ UNCHANGED <<smVars, reqMode, mode, iteration, toolDefs, tcIdx, toolResults, ctxDone,
                   retErr, sessID, executed, outcomes, received, cancelledAt, providerFailed>>

\* One pass of the range over eventCh (server.go:144-226): the turn's
\* accumulators and the frames sent, after `event`.
OnEvent(st, event) ==
    CASE event.Type = "content_block_start" /\ event.Sub = "tool_use" ->
           [st EXCEPT !.currentToolCall = [ID |-> event.ID, Name |-> event.Name],
                      !.sent = Append(@, Frame("tool_call", event.ID, FALSE, FALSE, "", "engine"))]
      [] event.Type = "content_block_delta" /\ event.Sub = "text_delta" ->
           [st EXCEPT !.textContent = TRUE,
                      !.sent = Append(@, Frame("markdown_chunk", 0, FALSE, FALSE, "", "engine"))]
      [] event.Type = "content_block_stop" /\ st.currentToolCall # NoCall ->
           [st EXCEPT !.sent = Append(@, Frame("tool_call", st.currentToolCall.ID, TRUE,
                                               FALSE, "", "engine")),
                      !.toolCalls = Append(@, st.currentToolCall),
                      !.currentToolCall = NoCall]
      [] event.Type = "message_delta" /\ event.Stop # "" ->
           [st EXCEPT !.stopReason = event.Stop]
      [] OTHER -> st

RECURSIVE Drain(_, _)
Drain(st, events) ==
    IF events = <<>> THEN st ELSE Drain(OnEvent(st, Head(events)), Tail(events))

\* The range over eventCh until the worker closes it (server.go:144-226).
DrainEvents ==
    /\ pc = "drain"
    /\ eventCh # <<>>
    /\ LET st == Drain([textContent |-> textContent, currentToolCall |-> currentToolCall,
                        toolCalls |-> toolCalls, stopReason |-> stopReason, sent |-> <<>>],
                       eventCh)
       IN /\ textContent' = st.textContent
          /\ currentToolCall' = st.currentToolCall
          /\ toolCalls' = st.toolCalls
          /\ stopReason' = st.stopReason
          /\ sse' = sse \o st.sent
    /\ eventCh' = <<>>
    /\ UNCHANGED <<smVars, reqMode, mode, pc, iteration, toolDefs, errCh, tcIdx, toolResults,
                   ctxDone, retErr, sessID, nextId, providerLog, executed, outcomes,
                   received, cancelledAt, providerFailed>>

\* eventCh is closed and errCh yields an error (server.go:230-242).
ProviderError ==
    /\ pc = "drain"
    /\ eventCh = <<>>
    /\ errCh = "err"
    /\ sse' = sendEvent("error", 0, FALSE, FALSE, "provider_error")
    /\ providerFailed' = TRUE
    /\ retErr' = "err"
    /\ pc' = "returned"
    /\ UNCHANGED <<smVars, reqMode, mode, iteration, toolDefs, eventCh, errCh, textContent,
                   currentToolCall, toolCalls, stopReason, tcIdx, toolResults, ctxDone,
                   sessID, nextId, providerLog, executed, outcomes, received, cancelledAt>>

\* The assistant message of the turn (server.go:244-252).
AssistantBlocksTextLast ==
    [i \in 1..Len(toolCalls) |-> ToolUseBlock(toolCalls[i].ID)]
    \o (IF textContent THEN <<TextBlock>> ELSE <<>>)
AssistantBlocks ==
    (IF textContent THEN <<TextBlock>> ELSE <<>>)
    \o [i \in 1..Len(toolCalls) |-> ToolUseBlock(toolCalls[i].ID)]

WithAssistantMessage(ss) ==
    IF Len(AssistantBlocks) > 0
    THEN AddMessage(ss, sessID, Message("assistant", AssistantBlocks), now)
    ELSE ss

\* eventCh is closed, errCh yields nil, and the turn is final (server.go:244-265).
TurnFinal ==
    /\ pc = "drain"
    /\ eventCh = <<>>
    /\ errCh = "nil"
    /\ stopReason # "tool_use" \/ Len(toolCalls) = 0
    /\ sessions' = WithAssistantMessage(sessions)
    /\ retErr' = "nil"
    /\ pc' = "returned"
    /\ UNCHANGED <<resultCh, now, expiredIDs, cleanupPc, lastCall, created,
                   reqMode, mode, iteration, toolDefs, eventCh, errCh, textContent,
                   currentToolCall, toolCalls, stopReason, tcIdx, toolResults, ctxDone,
                   sessID, nextId, sse, providerLog, executed, outcomes, received,
                   cancelledAt, providerFailed>>

\* eventCh is closed, errCh yields nil, and the turn asks for tools (server.go:244-269).
TurnAsksTools ==
    /\ pc = "drain"
    /\ eventCh = <<>>
    /\ errCh = "nil"
    /\ ~(stopReason # "tool_use" \/ Len(toolCalls) = 0)
    /\ sessions' = WithAssistantMessage(sessions)
    /\ tcIdx' = 1
    /\ toolResults' = <<>>
    /\ pc' = "exec"
    /\ UNCHANGED <<resultCh, now, expiredIDs, cleanupPc, lastCall, created,
                   reqMode, mode, iteration, toolDefs, eventCh, errCh, textContent,
                   currentToolCall, toolCalls, stopReason, ctxDone, retErr,
                   sessID, nextId, sse, providerLog, executed, outcomes, received,
                   cancelledAt, providerFailed>>


(***************************************************************************)
(* executeToolCall (server.go:299-407) for tool call toolCalls[tcIdx], and *)
(* the caller's handling of what it returns (server.go:269-294).           *)
(***************************************************************************)
tc == toolCalls[tcIdx]

\* executeToolCall has returned for tc with a result or an error: the caller
\* appends the tool_result block and moves on to the next call, or appends
\* the results to the session and starts the next iteration.
Finish(kind, isError) ==
    /\ outcomes' = Append(outcomes, [id |-> tc.ID, name |-> tc.Name, kind |-> kind,
                                     isError |-> isError])
    /\ LET results == Append(toolResults, ToolResultBlock(tc.ID, isError)) IN
       /\ toolResults' = results
       /\ IF tcIdx < Len(toolCalls)
          THEN /\ tcIdx' = tcIdx + 1
               /\ pc' = "exec"
               /\ UNCHANGED <<sessions, iteration>>
          ELSE /\ sessions' = AddMessage(sessions, sessID, Message("user", results), now)
               /\ iteration' = iteration + 1
               /\ tcIdx' = tcIdx
               /\ pc' = "loop"

\* server.go:374-406: progress, Execute, tool_result
RunTool ==
    /\ executed' = executed \cup {[id |-> tc.ID, name |-> tc.Name, mode |-> mode]}
    /\ \E isError \in BOOLEAN :
         /\ sse' = Append(sendEvent("progress", 0, FALSE, FALSE, ""),
                          Frame("tool_result", tc.ID, FALSE, ~isError, "", "engine"))
         /\ Finish("executed", isError)

chatFrame == UNCHANGED <<reqMode, mode, toolDefs, eventCh, errCh, textContent,
                         currentToolCall, toolCalls, stopReason, ctxDone, retErr,
                         sessID, nextId, providerLog, cancelledAt, providerFailed>>
\* server.go:306-312
ExecUnknown ==
    /\ pc = "exec"
    /\ ~RegistryGet(tc.Name)
    /\ Finish("unknown", TRUE)
    /\ chatFrame /\ smRest
    /\ UNCHANGED <<resultCh, sse, executed, received>>

\* server.go:314-320
ExecBlocked ==
    /\ pc = "exec"
    /\ RegistryGet(tc.Name)
    /\ IsBlocked(tc.Name, mode)
    /\ Finish("blocked", TRUE)
    /\ chatFrame /\ smRest
    /\ UNCHANGED <<resultCh, sse, executed, received>>

\* server.go:322-345: the confirmation_request event and the pending's channel
ExecConfirmRequest ==
    /\ pc = "exec"
    /\ RegistryGet(tc.Name)
    /\ ~IsBlocked(tc.Name, mode)
    /\ NeedsConfirmation(tc.Name, mode)
    /\ sse' = sendEvent("confirmation_request", tc.ID, TRUE, FALSE, "")
    /\ resultCh' = Put(resultCh, tc.ID, <<>>)
    /\ pc' = "addpending"
    /\ chatFrame /\ smRest
    /\ UNCHANGED <<sessions, iteration, tcIdx, toolResults, executed, outcomes, received>>

\* server.go:350-352
ExecAddPending ==
    /\ pc = "addpending"
    /\ IF sessID \in DOMAIN sessions
       THEN /\ sessions' = AddPendingConfirmation(sessions, sessID, tc.ID)
            /\ pc' = "wait"
            /\ UNCHANGED <<iteration, tcIdx, toolResults, outcomes>>
       ELSE Finish("addpending_failed", TRUE)
    /\ chatFrame /\ smRest
    /\ UNCHANGED <<resultCh, sse, executed, received>>

\* server.go:357-363: a decision arrives on the result channel
WaitDecision ==
    /\ pc = "wait"
    /\ resultCh[tc.ID] # <<>>
    /\ LET decision == Head(resultCh[tc.ID]) IN
       /\ resultCh' = [resultCh EXCEPT ![tc.ID] = Tail(@)]
       /\ received' = received \cup {<<tc.ID, decision>>}
       /\ IF DecisionProceeds(decision)
          THEN /\ pc' = "execute"
               /\ UNCHANGED <<sessions, iteration, tcIdx, toolResults, outcomes>>
          ELSE Finish("denied", TRUE)
    /\ chatFrame /\ smRest
    /\ UNCHANGED <<sse, executed>>

\* server.go:364-365: ctx.Done; the caller turns the error into a tool_result block
WaitCtxDone ==
    /\ pc = "wait"
    /\ ctxDone
    /\ Finish("cancelled", TRUE)
    /\ chatFrame /\ smRest
    /\ UNCHANGED <<resultCh, sse, executed, received>>

\* server.go:366, time.After(confirmationTimeout): the timer delivers
TimerNeverFires == FALSE
TimerFires == TRUE

\* server.go:366-370: the confirmation timeout fires
WaitTimeout ==
    /\ pc = "wait"
    /\ TimerFires
    /\ Finish("timeout", TRUE)
    /\ chatFrame /\ smRest
    /\ UNCHANGED <<resultCh, sse, executed, received>>

\* server.go:374-406 for a tool that needs no confirmation
ExecDirect ==
    /\ pc = "exec"
    /\ RegistryGet(tc.Name)
    /\ ~IsBlocked(tc.Name, mode)
    /\ ~NeedsConfirmation(tc.Name, mode)
    /\ RunTool
    /\ chatFrame /\ smRest
    /\ UNCHANGED <<resultCh, received>>

\* server.go:374-406 after an approval
ExecApproved ==
    /\ pc = "execute"
    /\ RunTool
    /\ chatFrame /\ smRest
    /\ UNCHANGED <<resultCh, received>>

\* NewSSEHandler after StreamChat returned (server_test.go:915-933)
HandlerFinish ==
    /\ pc = "returned"
    /\ sse' = (IF retErr = "err"
               THEN Append(sse, Frame("error", 0, FALSE, FALSE, "internal_error", "handler"))
               ELSE sse)
              \o <<Frame("[DONE]", 0, FALSE, FALSE, "", "handler")>>
    /\ pc' = "done"
    /\ UNCHANGED <<smVars, reqMode, mode, iteration, toolDefs, eventCh, errCh, textContent,
                   currentToolCall, toolCalls, stopReason, tcIdx, toolResults, ctxDone,
                   retErr, sessID, nextId, providerLog, executed, outcomes, received,
                   cancelledAt, providerFailed>>

(***************************************************************************)
(* The environment of the request.                                         *)
(***************************************************************************)
Running == pc \notin {"returned", "done"}

\* The approval endpoint: ApproveToolCall -> ResolveConfirmation
\* (server.go:418-420, manager.go:259-286).  A call for an unknown session or
\* tool call returns an error and changes nothing.
ApproveToolCall ==
    /\ Running
    /\ \E tcid \in 1..nextId, approved \in BOOLEAN :
         LET r == ResolveConfirmation(sessions, resultCh, sessID, tcid, approved) IN
         /\ r.ok
         /\ sessions' = r.sessions
         /\ resultCh' = r.resultCh
    /\ smRest
    /\ UNCHANGED <<chatVars, auxVars>>

\* The client disconnects while the engine is suspended on the provider's
\* events or on a confirmation: the request context is cancelled.  The
\* provider worker stops (anthropic.go:184-193): events not yet buffered are
\* lost, and errCh yields nil (closed without a value) or the read error.
CtxCancel ==
    /\ pc \in {"drain", "wait"}
    /\ ~ctxDone
    /\ ctxDone' = TRUE
    /\ cancelledAt' = pc
    /\ IF pc = "drain"
       THEN \E k \in 0..Len(eventCh), e \in {"nil", "err"} :
              /\ eventCh' = SubSeq(eventCh, 1, k)
              /\ errCh' = IF k = Len(eventCh) /\ errCh = "err" THEN "err" ELSE e
       ELSE UNCHANGED <<eventCh, errCh>>
    /\ UNCHANGED <<smVars, reqMode, mode, pc, iteration, toolDefs, textContent,
                   currentToolCall, toolCalls, stopReason, tcIdx, toolResults,
                   retErr, sessID, nextId, sse, providerLog, executed, outcomes,
                   received, providerFailed>>

\* This request's session is evicted: by evictLRU when another caller's
\* GetOrCreate finds MaxSessions sessions stored and this one least recently
\* used (manager.go:154-166), or by CleanupExpired (manager.go:317-329).
\* Either way every pending channel of the session gets a non-blocking
\* denial and the session is deleted.  The sessions of other callers are
\* not part of this specification.  The engine notices the eviction at its
\* next access to the session (GetMessages, AddMessage,
\* AddPendingConfirmation) or on the pending's channel, so the step is taken
\* at the positions right before those.
SessionEvicted ==
    /\ pc \in {"loop", "drain", "exec", "addpending", "wait"}
    /\ eventCh = <<>>
    /\ sessID \in DOMAIN sessions
    /\ LET r == evictLRU(sessions, resultCh, sessID) IN
       /\ sessions' = r.sessions
       /\ resultCh' = r.resultCh
    /\ smRest
    /\ UNCHANGED <<chatVars, auxVars>>

Next ==
    \/ Start /\ UNCHANGED auxVars
    \/ LoopExit /\ UNCHANGED auxVars
    \/ LoopGetMessagesFails /\ UNCHANGED auxVars
    \/ ProviderCall /\ UNCHANGED auxVars
    \/ DrainEvents /\ UNCHANGED auxVars
    \/ ProviderError /\ UNCHANGED auxVars
    \/ TurnFinal /\ UNCHANGED auxVars
    \/ TurnAsksTools /\ UNCHANGED auxVars
    \/ ExecUnknown /\ UNCHANGED auxVars
    \/ ExecBlocked /\ UNCHANGED auxVars
    \/ ExecConfirmRequest /\ UNCHANGED auxVars
    \/ ExecAddPending /\ UNCHANGED auxVars
    \/ WaitDecision /\ UNCHANGED auxVars
    \/ WaitCtxDone /\ UNCHANGED auxVars
    \/ WaitTimeout /\ UNCHANGED auxVars
    \/ ExecDirect /\ UNCHANGED auxVars
    \/ ExecApproved /\ UNCHANGED auxVars
    \/ HandlerFinish /\ UNCHANGED auxVars
    \/ ApproveToolCall /\ UNCHANGED auxVars
    \/ CtxCancel /\ UNCHANGED auxVars
    \/ SessionEvicted /\ UNCHANGED auxVars

Spec == Init /\ [][Next]_vars

\* The steps of the request's own goroutine: StreamChat, executeToolCall and
\* the handler's epilogue.  The goroutine is always scheduled, every provider
\* stream closes, every Execute returns and the confirmation timer fires,
\* so a step of it that stays possible is eventually taken.
EngineNext ==
    \/ Start /\ UNCHANGED auxVars
    \/ LoopExit /\ UNCHANGED auxVars
    \/ LoopGetMessagesFails /\ UNCHANGED auxVars
    \/ ProviderCall /\ UNCHANGED auxVars
    \/ DrainEvents /\ UNCHANGED auxVars
    \/ ProviderError /\ UNCHANGED auxVars
    \/ TurnFinal /\ UNCHANGED auxVars
    \/ TurnAsksTools /\ UNCHANGED auxVars
    \/ ExecUnknown /\ UNCHANGED auxVars
    \/ ExecBlocked /\ UNCHANGED auxVars
    \/ ExecConfirmRequest /\ UNCHANGED auxVars
    \/ ExecAddPending /\ UNCHANGED auxVars
    \/ WaitDecision /\ UNCHANGED auxVars
    \/ WaitCtxDone /\ UNCHANGED auxVars
    \/ WaitTimeout /\ UNCHANGED auxVars
    \/ ExecDirect /\ UNCHANGED auxVars
    \/ ExecApproved /\ UNCHANGED auxVars
    \/ HandlerFinish /\ UNCHANGED auxVars

SpecLive == Init /\ [][Next]_vars /\ WF_vars(EngineNext)

(***************************************************************************)
(* One chat request with AddPendingConfirmation in its two lock phases     *)
(* (SpecEvict): the session is looked up under the manager's read lock     *)
(* (manager.go:244-250) and the pending is stored under the session's lock *)
(* (manager.go:252-255); an eviction can run between the two.              *)
(***************************************************************************)
\* manager.go:244-250 as called at server.go:350-352
ExecAddPendingLookup ==
    /\ pc = "addpending"
    /\ IF sessID \in DOMAIN sessions
       THEN /\ pc' = "addpending_insert"
            /\ UNCHANGED <<sessions, iteration, tcIdx, toolResults, outcomes>>
       ELSE Finish("addpending_failed", TRUE)
    /\ chatFrame /\ smRest
    /\ UNCHANGED <<resultCh, sse, executed, received>>

\* manager.go:252-255: the pending goes into the Session that was looked up,
\* whether the table still holds it or not.
ExecAddPendingInsert ==
    /\ pc = "addpending_insert"
    /\ sessions' = AddPendingConfirmation(sessions, sessID, tc.ID)
    /\ pc' = "wait"
    /\ chatFrame /\ smRest
    /\ UNCHANGED <<resultCh, sse, executed, received, iteration, tcIdx, toolResults,
                   outcomes>>

\* evictLRU or CleanupExpired removes the session between the two phases
\* (manager.go:154-165, 318-329).
EvictedBeforeInsert ==
    /\ pc = "addpending_insert"
    /\ sessID \in DOMAIN sessions
    /\ LET r == evictLRU(sessions, resultCh, sessID) IN
       /\ sessions' = r.sessions
       /\ resultCh' = r.resultCh
    /\ smRest
    /\ UNCHANGED <<chatVars, auxVars>>

NextEvict ==
    \/ Start /\ UNCHANGED auxVars
    \/ LoopExit /\ UNCHANGED auxVars
    \/ LoopGetMessagesFails /\ UNCHANGED auxVars
    \/ ProviderCall /\ UNCHANGED auxVars
    \/ DrainEvents /\ UNCHANGED auxVars
    \/ ProviderError /\ UNCHANGED auxVars
    \/ TurnFinal /\ UNCHANGED auxVars
    \/ TurnAsksTools /\ UNCHANGED auxVars
    \/ ExecUnknown /\ UNCHANGED auxVars
    \/ ExecBlocked /\ UNCHANGED auxVars
    \/ ExecConfirmRequest /\ UNCHANGED auxVars
    \/ ExecAddPendingLookup /\ UNCHANGED auxVars
    \/ ExecAddPendingInsert /\ UNCHANGED auxVars
    \/ EvictedBeforeInsert
    \/ WaitDecision /\ UNCHANGED auxVars
    \/ WaitCtxDone /\ UNCHANGED auxVars
    \/ WaitTimeout /\ UNCHANGED auxVars
    \/ ExecDirect /\ UNCHANGED auxVars
    \/ ExecApproved /\ UNCHANGED auxVars
    \/ HandlerFinish /\ UNCHANGED auxVars
    \/ ApproveToolCall /\ UNCHANGED auxVars
    \/ CtxCancel /\ UNCHANGED auxVars
    \/ SessionEvicted

SpecEvict == Init /\ [][NextEvict]_vars

(***************************************************************************)
(* One chat request with what Tool.Execute hands back (SpecExecute): the   *)
(* (result, error) pairs of the Tool interface, and the pairs the adapter  *)
(* of an external MCP tool derives from the server's JSON-RPC response.    *)
(***************************************************************************)
\* What the MCP server's answer to tools/call can be (client.go:111-138).
RPCResponses == {"transport_error", "unparsable", "rpc_error", "result", "result_is_error",
                 "no_result_no_error"}

\* MCPClient.CallTool (client.go:86-139): the *MCPToolResult and the error.
CallTool(resp) ==
    CASE resp \in {"transport_error", "unparsable"} -> [result |-> "nil", err |-> TRUE]
      [] resp = "rpc_error" -> [result |-> "error", err |-> FALSE]
      [] resp = "result" -> [result |-> "ok", err |-> FALSE]
      [] resp = "result_is_error" -> [result |-> "error", err |-> FALSE]
      [] OTHER -> [result |-> "nil", err |-> FALSE]

\* mcpToolAdapter.Execute (manager.go:58-73): ranging over result.Content
\* dereferences the result.
mcpToolAdapterExecute(ct) ==
    IF ct.err THEN [result |-> "error", err |-> FALSE, panics |-> FALSE]
    ELSE IF ct.result = "nil" THEN [result |-> "nil", err |-> FALSE, panics |-> TRUE]
    ELSE [result |-> ct.result, err |-> FALSE, panics |-> FALSE]

\* What Execute of a registered tool can hand back: any pair of the
\* interface (client.go:378), or what the MCP adapter makes of a response.
ExecuteOutcomes ==
    {[result |-> r, err |-> e, panics |-> FALSE] : r \in {"nil", "ok", "error"}, e \in BOOLEAN}
    \cup {mcpToolAdapterExecute(CallTool(resp)) : resp \in RPCResponses}

\* server.go:388-406: an error becomes an error ToolResult; result.Content
\* and result.IsError are read from the result otherwise.
ExecuteResult(out) ==
    IF out.panics THEN [panics |-> TRUE, isError |-> TRUE]
    ELSE IF out.err THEN [panics |-> FALSE, isError |-> TRUE]
    ELSE IF out.result = "nil" THEN [panics |-> TRUE, isError |-> TRUE]
    ELSE [panics |-> FALSE, isError |-> out.result = "error"]

\* server.go:374-406 with the tool's outcome chosen
RunToolReturns ==
    /\ executed' = executed \cup {[id |-> tc.ID, name |-> tc.Name, mode |-> mode]}
    /\ \E out \in ExecuteOutcomes :
         LET r == ExecuteResult(out) IN
         IF r.panics
         THEN /\ sse' = sendEvent("progress", 0, FALSE, FALSE, "")
              /\ outcomes' = Append(outcomes, [id |-> tc.ID, name |-> tc.Name,
                                               kind |-> "panic", isError |-> TRUE])
              /\ pc' = "panicked"
              /\ UNCHANGED <<sessions, iteration, tcIdx, toolResults>>
         ELSE /\ sse' = Append(sendEvent("progress", 0, FALSE, FALSE, ""),
                               Frame("tool_result", tc.ID, FALSE, ~r.isError, "", "engine"))
              /\ Finish("executed", r.isError)

ExecDirectReturns ==
    /\ pc = "exec"
    /\ RegistryGet(tc.Name)
    /\ ~IsBlocked(tc.Name, mode)
    /\ ~NeedsConfirmation(tc.Name, mode)
    /\ RunToolReturns
    /\ chatFrame /\ smRest
    /\ UNCHANGED <<resultCh, received>>

ExecApprovedReturns ==
    /\ pc = "execute"
    /\ RunToolReturns
    /\ chatFrame /\ smRest
    /\ UNCHANGED <<resultCh, received>>

NextExecute ==
    \/ Start /\ UNCHANGED auxVars
    \/ LoopExit /\ UNCHANGED auxVars
    \/ LoopGetMessagesFails /\ UNCHANGED auxVars
    \/ ProviderCall /\ UNCHANGED auxVars
    \/ DrainEvents /\ UNCHANGED auxVars
    \/ ProviderError /\ UNCHANGED auxVars
    \/ TurnFinal /\ UNCHANGED auxVars
    \/ TurnAsksTools /\ UNCHANGED auxVars
    \/ ExecUnknown /\ UNCHANGED auxVars
    \/ ExecBlocked /\ UNCHANGED auxVars
    \/ ExecConfirmRequest /\ UNCHANGED auxVars
    \/ ExecAddPending /\ UNCHANGED auxVars
    \/ WaitDecision /\ UNCHANGED auxVars
    \/ WaitCtxDone /\ UNCHANGED auxVars
    \/ WaitTimeout /\ UNCHANGED auxVars
    \/ ExecDirectReturns /\ UNCHANGED auxVars
    \/ ExecApprovedReturns /\ UNCHANGED auxVars
    \/ HandlerFinish /\ UNCHANGED auxVars
    \/ ApproveToolCall /\ UNCHANGED auxVars
    \/ CtxCancel /\ UNCHANGED auxVars
    \/ SessionEvicted

SpecExecute == Init /\ [][NextExecute]_vars

(***************************************************************************)
(* The range over eventCh with the tool input fragments (SpecBlocks): the  *)
(* provider streams two tool_use blocks, each a start, its                 *)
(* input_json_delta fragments and a stop, one after the other or           *)
(* interleaved; the loop of server.go:144-219 collects the tool calls.     *)
(***************************************************************************)
BlockName(i) == IF i = 1 THEN "list_runs" ELSE "delete_run"
BlockEvent(type, i, k) == [Type |-> type, Index |-> i, ID |-> i, Name |-> BlockName(i),
                           PartialJSON |-> <<i, k>>]
BlockStream(i, n) ==
    <<BlockEvent("content_block_start", i, 0)>>
    \o [k \in 1..n |-> BlockEvent("input_json_delta", i, k)]
    \o <<BlockEvent("content_block_stop", i, 0)>>

\* The interleavings of two streams of events.
RECURSIVE Merges(_, _)
Merges(a, b) ==
    IF a = <<>> THEN {b}
    ELSE IF b = <<>> THEN {a}
    ELSE {<<Head(a)>> \o m : m \in Merges(Tail(a), b)}
         \cup {<<Head(b)>> \o m : m \in Merges(a, Tail(b))}

BlockStreams ==
    UNION {Merges(BlockStream(1, n1), BlockStream(2, n2)) :
              n1 \in 0..MaxFragments, n2 \in 0..MaxFragments}

\* One pass of the loop (server.go:145-218) over a tool_use event.
RangeStep(st, event) ==
    CASE event.Type = "content_block_start" ->
           [st EXCEPT !.currentToolCall = [ID |-> event.ID, Name |-> event.Name],
                      !.toolCallJSON = <<>>]
      [] event.Type = "input_json_delta" ->
           [st EXCEPT !.toolCallJSON = Append(@, event.PartialJSON)]
      [] event.Type = "content_block_stop" /\ st.currentToolCall # NoCall ->
           [st EXCEPT !.toolCalls = Append(@, [ID |-> st.currentToolCall.ID,
                                               Name |-> st.currentToolCall.Name,
                                               Input |-> st.toolCallJSON]),
                      !.currentToolCall = NoCall]
      [] OTHER -> st

RECURSIVE RangeAll(_, _)
RangeAll(st, events) ==
    IF events = <<>> THEN st ELSE RangeAll(RangeStep(st, Head(events)), Tail(events))

InitBlocks ==
    /\ InitSM
    /\ reqMode = ChatModeAgent
    /\ mode = ChatModeAgent
    /\ pc = "range"
    /\ iteration = 0
    /\ toolDefs = {}
    /\ eventCh \in BlockStreams
    /\ errCh = "nil"
    /\ textContent = FALSE
    /\ currentToolCall = NoCall
    /\ toolCalls = <<>>
    /\ stopReason = ""
    /\ tcIdx = 0
    /\ toolResults = <<>>
    /\ ctxDone = FALSE
    /\ retErr = "none"
    /\ sessID = ""
    /\ nextId = 0
    /\ sse = <<>>
    /\ providerLog = <<>>
    /\ executed = {}
    /\ outcomes = <<>>
    /\ received = {}
    /\ cancelledAt = "never"
    /\ providerFailed = FALSE
    /\ InitTools
    /\ InitProvider
    /\ InitGate
    /\ InitSlices
    /\ InitLocks

\* The range runs until the channel is closed (server.go:144-226).
RangeBlocks ==
    /\ pc = "range"
    /\ LET st == RangeAll([currentToolCall |-> NoCall, toolCallJSON |-> <<>>,
                           toolCalls |-> <<>>], eventCh)
       IN /\ toolCalls' = st.toolCalls
          /\ currentToolCall' = st.currentToolCall
    /\ pc' = "ranged"
    /\ UNCHANGED <<smVars, reqMode, mode, iteration, toolDefs, eventCh, errCh, textContent,
                   stopReason, tcIdx, toolResults, ctxDone, retErr, sessID, nextId, sse,
                   providerLog, executed, outcomes, received, cancelledAt, providerFailed>>

NextBlocks == RangeBlocks /\ UNCHANGED auxVars

SpecBlocks == InitBlocks /\ [][NextBlocks]_vars

(***************************************************************************)
(* ResolveConfirmation in its steps (SpecResolve): the lookup under the    *)
(* manager's read lock (manager.go:260-266), the removal of the entry      *)
(* under the session's lock (manager.go:268-275) and the send              *)
(* (manager.go:279-284), with AddPendingConfirmation, evictions and the    *)
(* engine's receive in between.  lastCall holds the call in flight: the    *)
(* Session it looked up is the stored one (held = "stored") or one that    *)
(* was evicted meanwhile, whose pending table the call still sees.         *)
(***************************************************************************)
NoResolve == [op |-> "ResolveConfirmation", phase |-> "idle", sid |-> "", tcid |-> 0,
              approved |-> FALSE, ok |-> FALSE, held |-> "stored", orphan |-> {},
              before |-> <<>>]

InitResolve ==
    /\ sessions = EmptyMap
    /\ resultCh = EmptyMap
    /\ now = 0
    /\ expiredIDs = {}
    /\ cleanupPc = "idle"
    /\ lastCall = NoResolve
    /\ created = {}
    /\ reqMode = ChatModeAgent
    /\ InitChatVars
    /\ InitTools
    /\ InitProvider
    /\ InitGate
    /\ InitSlices
    /\ InitLocks

resolveRest == UNCHANGED <<now, expiredIDs, cleanupPc, created>>

ResGetOrCreate ==
    /\ ReqSessionID \notin DOMAIN sessions
    /\ sessions' = GetOrCreate(sessions, resultCh, ReqSessionID, ChatModeAgent, "", now,
                               "").sessions
    /\ UNCHANGED <<resultCh, lastCall, received>>
    /\ resolveRest

\* server.go:341-352: a pending with a new, empty channel
ResAddPending ==
    \E tcid \in 1..MaxToolUses :
        /\ ReqSessionID \in DOMAIN sessions
        /\ tcid \notin DOMAIN resultCh
        /\ resultCh' = Put(resultCh, tcid, <<>>)
        /\ sessions' = AddPendingConfirmation(sessions, ReqSessionID, tcid)
        /\ UNCHANGED <<lastCall, received>>
        /\ resolveRest

\* manager.go:260-266
ResLookup ==
    \E tcid \in 1..MaxToolUses, approved \in BOOLEAN :
        /\ lastCall.phase \in {"idle", "done"}
        /\ lastCall' = [NoResolve EXCEPT
                            !.sid = ReqSessionID, !.tcid = tcid, !.approved = approved,
                            !.phase = IF ReqSessionID \in DOMAIN sessions
                                      THEN "lookedup" ELSE "done"]
        /\ UNCHANGED <<sessions, resultCh, received>>
        /\ resolveRest

\* manager.go:268-275
ResRemove ==
    /\ lastCall.phase = "lookedup"
    /\ LET table == IF lastCall.held = "stored"
                    THEN sessions[lastCall.sid].PendingConfirmations
                    ELSE lastCall.orphan
       IN IF lastCall.tcid \in table
          THEN /\ lastCall' = [lastCall EXCEPT !.phase = "removed",
                                               !.orphan = @ \ {lastCall.tcid}]
               /\ sessions' = IF lastCall.held = "stored"
                              THEN [sessions EXCEPT ![lastCall.sid].PendingConfirmations =
                                                        @ \ {lastCall.tcid}]
                              ELSE sessions
          ELSE /\ lastCall' = [lastCall EXCEPT !.phase = "done"]
               /\ UNCHANGED sessions
    /\ UNCHANGED <<resultCh, received>>
    /\ resolveRest

\* manager.go:279-285
ResSend ==
    /\ lastCall.phase = "removed"
    /\ resultCh' = SendNonBlocking(resultCh, {lastCall.tcid}, lastCall.approved)
    /\ lastCall' = [lastCall EXCEPT !.phase = "done", !.ok = TRUE,
                                    !.before = resultCh[lastCall.tcid]]
    /\ UNCHANGED <<sessions, received>>
    /\ resolveRest

\* evictLRU or CleanupExpired removes the session (manager.go:154-165,
\* 318-329); a call in flight keeps the Session it looked up.
ResEvict ==
    /\ ReqSessionID \in DOMAIN sessions
    /\ LET r == evictLRU(sessions, resultCh, ReqSessionID) IN
       /\ sessions' = r.sessions
       /\ resultCh' = r.resultCh
    /\ lastCall' = IF lastCall.phase \in {"lookedup", "removed"} /\ lastCall.held = "stored"
                   THEN [lastCall EXCEPT !.held = "evicted",
                                         !.orphan = sessions[ReqSessionID].PendingConfirmations]
                   ELSE lastCall
    /\ UNCHANGED received
    /\ resolveRest

\* server.go:358: the engine takes the decision from the channel
ResReceive ==
    \E tcid \in DOMAIN resultCh :
        /\ resultCh[tcid] # <<>>
        /\ received' = received \cup {<<tcid, Head(resultCh[tcid])>>}
        /\ resultCh' = [resultCh EXCEPT ![tcid] = Tail(@)]
        /\ UNCHANGED <<sessions, lastCall>>
        /\ resolveRest

resolveFrame == UNCHANGED <<reqMode, mode, pc, iteration, toolDefs, eventCh, errCh,
                            textContent, currentToolCall, toolCalls, stopReason, tcIdx,
                            toolResults, ctxDone, retErr, sessID, nextId, sse, providerLog,
                            executed, outcomes, cancelledAt, providerFailed, auxVars>>

NextResolve ==
    \/ ResGetOrCreate /\ resolveFrame
    \/ ResAddPending /\ resolveFrame
    \/ ResLookup /\ resolveFrame
    \/ ResRemove /\ resolveFrame
    \/ ResSend /\ resolveFrame
    \/ ResEvict /\ resolveFrame
    \/ ResReceive /\ resolveFrame

\* The call is a running goroutine: its send is taken when it can be.
SpecResolve == InitResolve /\ [][NextResolve]_vars /\ WF_vars(ResSend /\ resolveFrame)

(***************************************************************************)
(* A sequence of chat requests on the same session (SpecRuns): when the    *)
(* handler of one request has finished, the client sends the next one      *)
(* with the same session id; the session manager keeps its sessions.       *)
(* The requests are Ask-mode requests that run undisturbed: no             *)
(* cancellation, no eviction, and so no confirmation to wait for.          *)
(***************************************************************************)
InitRuns ==
    /\ InitSM
    /\ reqMode = ChatModeAsk
    /\ InitChatVars
    /\ InitTools
    /\ InitProvider
    /\ InitGate
    /\ InitSlices
    /\ InitLocks

NextRequest ==
    /\ pc = "done"
    /\ reqMode' = reqMode
    /\ mode' = 0
    /\ pc' = "start"
    /\ iteration' = 0
    /\ toolDefs' = {}
    /\ eventCh' = <<>>
    /\ errCh' = "nil"
    /\ textContent' = FALSE
    /\ currentToolCall' = NoCall
    /\ toolCalls' = <<>>
    /\ stopReason' = ""
    /\ tcIdx' = 0
    /\ toolResults' = <<>>
    /\ ctxDone' = FALSE
    /\ retErr' = "none"
    /\ sessID' = ""
    /\ nextId' = 0
    /\ sse' = <<>>
    /\ providerLog' = <<>>
    /\ executed' = {}
    /\ outcomes' = <<>>
    /\ received' = {}
    /\ cancelledAt' = "never"
    /\ providerFailed' = FALSE
    /\ UNCHANGED smVars

NextRuns ==
    \/ Start /\ UNCHANGED auxVars
    \/ LoopExit /\ UNCHANGED auxVars
    \/ ProviderCall /\ UNCHANGED auxVars
    \/ DrainEvents /\ UNCHANGED auxVars
    \/ ProviderError /\ UNCHANGED auxVars
    \/ TurnFinal /\ UNCHANGED auxVars
    \/ TurnAsksTools /\ UNCHANGED auxVars
    \/ ExecUnknown /\ UNCHANGED auxVars
    \/ ExecBlocked /\ UNCHANGED auxVars
    \/ ExecDirect /\ UNCHANGED auxVars
    \/ HandlerFinish /\ UNCHANGED auxVars
    \/ NextRequest /\ UNCHANGED auxVars

SpecRuns == InitRuns /\ [][NextRuns]_vars

InitSpecSM ==
    /\ InitSM
    /\ reqMode = ChatModeAsk
    /\ InitChatVars
    /\ InitTools
    /\ InitProvider
    /\ InitGate
    /\ InitSlices
    /\ InitLocks

SpecSM == InitSpecSM /\ [][NextSM]_vars

(***************************************************************************)
(* Pending confirmations against the cleanup loop (SpecPending): engines   *)
(* register pendings (server.go:341-352), the approval endpoint resolves   *)
(* them, sessions are touched, the clock advances and CleanupExpired runs. *)
(* The store starts with any of the sessions, last accessed now or one     *)
(* tick earlier.                                                           *)
(***************************************************************************)
PendingIDs == 1..MaxToolUses

\* The channel a caller hands over: fresh (server.go:344) or already holding
\* a decision (manager_test.go:296-299).
ChannelContents == {<<>>, <<TRUE>>, <<FALSE>>}

NoStoreCall ==
    [op |-> "none", sid |-> "", tcid |-> 0, approved |-> FALSE, ok |-> FALSE,
     again |-> FALSE, buffered |-> <<>>]

InitPending ==
    /\ \E f \in UNION {[D -> {0 - 1, 0}] : D \in SUBSET SessionIDs} :
         sessions = [id \in DOMAIN f |-> NewSession(id, "", ChatModeAgent, f[id])]
    /\ resultCh = EmptyMap
    /\ now = 0
    /\ expiredIDs = {}
    /\ cleanupPc = "idle"
    /\ lastCall = NoStoreCall
    /\ created = {}
    /\ reqMode = ChatModeAgent
    /\ InitChatVars
    /\ InitTools
    /\ InitProvider
    /\ InitGate
    /\ InitSlices
    /\ InitLocks

PendGetOrCreate ==
    \E sessionID \in SessionIDs, victim \in Victims(sessions) :
        LET r == GetOrCreate(sessions, resultCh, sessionID, ChatModeAgent, "", now, victim) IN
        /\ sessions' = r.sessions
        /\ resultCh' = r.resultCh
        /\ lastCall' = [NoStoreCall EXCEPT !.op = "GetOrCreate", !.sid = sessionID, !.ok = TRUE]
        /\ UNCHANGED <<now, expiredIDs, cleanupPc, created>>

\* The caller makes the pending with its channel and registers it
\* (server.go:341-352); an unknown session is an error.
PendAddPending ==
    \E sessionID \in SessionIDs, tcid \in PendingIDs, buffered \in ChannelContents :
        /\ tcid \notin DOMAIN resultCh
        /\ resultCh' = Put(resultCh, tcid, buffered)
        /\ sessions' = AddPendingConfirmation(sessions, sessionID, tcid)
        /\ lastCall' = [NoStoreCall EXCEPT !.op = "AddPendingConfirmation", !.sid = sessionID,
                                           !.tcid = tcid, !.ok = sessionID \in DOMAIN sessions,
                                           !.buffered = buffered]
        /\ UNCHANGED <<now, expiredIDs, cleanupPc, created>>

\* The approval endpoint with any session id, tool call id and decision.
PendResolve ==
    \E sessionID \in SessionIDs, tcid \in PendingIDs, approved \in BOOLEAN :
        LET r == ResolveConfirmation(sessions, resultCh, sessionID, tcid, approved) IN
        /\ sessions' = r.sessions
        /\ resultCh' = r.resultCh
        /\ lastCall' = [op |-> "ResolveConfirmation", sid |-> sessionID, tcid |-> tcid,
                        approved |-> approved, ok |-> r.ok,
                        again |-> /\ lastCall.op = "ResolveConfirmation"
                                  /\ lastCall.sid = sessionID
                                  /\ lastCall.tcid = tcid
                                  /\ (lastCall.ok \/ lastCall.again),
                        buffered |-> <<>>]
        /\ UNCHANGED <<now, expiredIDs, cleanupPc, created>>

NextPending ==
    \/ PendGetOrCreate /\ UNCHANGED <<chatVars, auxVars>>
    \/ PendAddPending /\ UNCHANGED <<chatVars, auxVars>>
    \/ PendResolve /\ UNCHANGED <<chatVars, auxVars>>
    \/ Tick /\ UNCHANGED <<chatVars, auxVars>>
    \/ CleanupScan /\ UNCHANGED <<chatVars, auxVars>>
    \/ CleanupSweep /\ UNCHANGED <<chatVars, auxVars>>

SpecPending == InitPending /\ [][NextPending]_vars

(***************************************************************************)
(* The tool registry on its own (SpecTools): it starts empty              *)
(* (NewToolRegistry), tools are registered one by one, and callers list    *)
(* the definitions for a mode or get a tool and ask it about a mode.       *)
(***************************************************************************)
InitSpecTools ==
    /\ InitSM
    /\ reqMode = ChatModeAsk
    /\ InitChatVars
    /\ InitProvider
    /\ InitGate
    /\ InitSlices
    /\ InitLocks
    /\ registry = {}
    /\ listed = [m \in RequestModes |-> NotListed]
    /\ probed = NotProbed

\* Register (registry.go:37-41): insert under the tool's name, replacing a
\* prior registration.
Register ==
    \E tool \in ToolUniverse :
        /\ registry' = registry \cup {tool}
        /\ listed' = [m \in RequestModes |-> NotListed]
        /\ UNCHANGED probed

\* A ListForMode call with any ChatMode value, the map visited in any order.
CallListForMode ==
    \E m \in RequestModes, order \in Orders(registry) :
        /\ listed' = [listed EXCEPT ![m] = [done |-> TRUE, defs |-> ListDefs(order, m)]]
        /\ UNCHANGED <<registry, probed>>

\* Get (registry.go:44-49) and, when found, the SecuredTool's answers for a
\* mode (IsReadOnly, IsBlocked, NeedsConfirmation).
CallGet ==
    \E name \in ToolUniverse \cup RequestableTools, m \in RequestModes :
        /\ probed' = IF RegistryGet(name)
                      THEN [name |-> name, mode |-> m, found |-> TRUE,
                            readOnly |-> IsReadOnly(name),
                            blocked |-> IsBlocked(name, m),
                            confirm |-> NeedsConfirmation(name, m)]
                      ELSE [NotProbed EXCEPT !.name = name, !.mode = m]
        /\ UNCHANGED <<registry, listed>>

NextTools ==
    \/ Register /\ UNCHANGED <<smVars, chatVars, provVars, gateVars, sliceVars, lockVars>>
    \/ CallListForMode /\ UNCHANGED <<smVars, chatVars, provVars, gateVars, sliceVars, lockVars>>
    \/ CallGet /\ UNCHANGED <<smVars, chatVars, provVars, gateVars, sliceVars, lockVars>>

SpecTools == InitSpecTools /\ [][NextTools]_vars

(***************************************************************************)
(* One StreamChat call of the provider adapter with its consumer           *)
(* (SpecProvider).  The goroutine of anthropic.go:68-194 builds and sends  *)
(* the request, scans the response line by line and sends each event on    *)
(* eventCh unless the context is done; its deferred calls close errCh and  *)
(* then eventCh.  The consumer ranges over eventCh and then reads errCh    *)
(* once (server.go:144-230).  A line of the body is an event, a line that  *)
(* is skipped (blank, no "data: " prefix, unparsable) or "data: [DONE]".   *)
(***************************************************************************)
EventChCap == 2     \* anthropic.go:65 makes 64
ErrChCap == 1
MaxLines == 3

LineKinds == {"event", "skip", "done"}
\* The StreamEvents a line may decode to (anthropic.go:153-182).
ProviderEvents ==
    {TextDelta, ToolUseStart(1, "list_runs"), BlockStop, MessageDelta("tool_use")}
Lines ==
    {[kind |-> k, ev |-> BlockStop] : k \in LineKinds \ {"event"}}
    \cup {[kind |-> "event", ev |-> e] : e \in ProviderEvents}
Bodies == UNION {[1..n -> Lines] : n \in 0..MaxLines}

EnqueueInFront(buf, e) == <<e>> \o buf
Enqueue(buf, e) == Append(buf, e)

DeferredCloseForgotten(ch) == ch
DeferredClose(ch) == [ch EXCEPT !.closed = TRUE]

provRest == UNCHANGED <<provCtxDone, consumerPc, consumerErr, delivered, rangeVars>>

\* errCh <- err; return
Fail(p) ==
    /\ Len(provErrCh.buf) < ErrChCap
    /\ provErrCh' = [provErrCh EXCEPT !.buf = Append(@, "err")]
    /\ errSends' = errSends + 1
    /\ workerPc' = "closeErrCh"
    /\ path' = p
    /\ UNCHANGED <<provEventCh, body, scanErr, frames>>

Goto(p) ==
    /\ workerPc' = p
    /\ UNCHANGED <<provEventCh, provErrCh, body, scanErr, errSends, path, frames>>

\* anthropic.go:92-96
MarshalOk == workerPc = "marshal" /\ Goto("newRequest") /\ provRest
MarshalFails == workerPc = "marshal" /\ Fail("marshal error") /\ provRest
\* anthropic.go:98-102
NewRequestOk == workerPc = "newRequest" /\ Goto("do") /\ provRest
NewRequestFails == workerPc = "newRequest" /\ Fail("request error") /\ provRest
\* anthropic.go:108-113
DoOk ==
    /\ workerPc = "do"
    /\ \E b \in Bodies : body' = b /\ frames' = b
    /\ workerPc' = "status"
    /\ UNCHANGED <<provEventCh, provErrCh, scanErr, errSends, path>>
    /\ provRest
DoFails == workerPc = "do" /\ Fail("request error") /\ provRest
\* anthropic.go:115-119
StatusOK == workerPc = "status" /\ Goto("scan") /\ provRest
StatusNotOK == workerPc = "status" /\ Fail("non-200 status") /\ provRest

\* One pass of `for scanner.Scan()` (anthropic.go:125-182).
ScanSkip ==
    /\ workerPc = "scan" /\ body # <<>> /\ Head(body).kind = "skip"
    /\ body' = Tail(body)
    /\ UNCHANGED <<workerPc, provEventCh, provErrCh, scanErr, errSends, path, frames>>
    /\ provRest
ScanDone ==
    /\ workerPc = "scan" /\ body # <<>> /\ Head(body).kind = "done"
    /\ Goto("afterLoop") /\ provRest
\* The line decodes to an event, which stays at the head of body until the
\* select has sent it.
ScanEvent ==
    /\ workerPc = "scan" /\ body # <<>> /\ Head(body).kind = "event"
    /\ Goto("select") /\ provRest
\* Scan returns false: the body has ended, or reading it failed.
ScanEnds ==
    /\ workerPc = "scan" /\ body = <<>>
    /\ Goto("afterLoop") /\ provRest
ScanFails ==
    /\ workerPc = "scan"
    /\ scanErr' = TRUE
    /\ workerPc' = "afterLoop"
    /\ UNCHANGED <<provEventCh, provErrCh, body, errSends, path, frames>>
    /\ provRest

\* select { case eventCh <- event: case <-ctx.Done(): return } (184-188)
SelectIgnoresDone == FALSE
SelectSeesDone == provCtxDone
SelectSend ==
    /\ workerPc = "select"
    /\ Len(provEventCh.buf) < EventChCap
    /\ provEventCh' = [provEventCh EXCEPT !.buf = Enqueue(@, Head(body).ev)]
    /\ body' = Tail(body)
    /\ workerPc' = "scan"
    /\ UNCHANGED <<provErrCh, scanErr, errSends, path, frames>>
    /\ provRest
SelectCtxDone ==
    /\ workerPc = "select"
    /\ SelectSeesDone
    /\ workerPc' = "closeErrCh"
    /\ path' = "ctx done"
    /\ UNCHANGED <<provEventCh, provErrCh, body, scanErr, errSends, frames>>
    /\ provRest

\* anthropic.go:191-193
AfterLoopError == workerPc = "afterLoop" /\ scanErr /\ Fail("scanner error") /\ provRest
AfterLoopNormal ==
    /\ workerPc = "afterLoop" /\ ~scanErr
    /\ workerPc' = "closeErrCh"
    /\ path' = "normal end"
    /\ UNCHANGED <<provEventCh, provErrCh, body, scanErr, errSends, frames>>
    /\ provRest

\* The deferred calls, last deferred first (anthropic.go:69-70).
CloseErrCh ==
    /\ workerPc = "closeErrCh"
    /\ provErrCh' = DeferredClose(provErrCh)
    /\ workerPc' = "closeEventCh"
    /\ UNCHANGED <<provEventCh, body, scanErr, errSends, path, frames>>
    /\ provRest
CloseEventCh ==
    /\ workerPc = "closeEventCh"
    /\ provEventCh' = DeferredClose(provEventCh)
    /\ workerPc' = "exited"
    /\ UNCHANGED <<provErrCh, body, scanErr, errSends, path, frames>>
    /\ provRest

workerRest == UNCHANGED <<workerPc, body, scanErr, provCtxDone, errSends, path, frames>>

\* One pass of `for event := range eventCh` (server.go:144-226).
ConsumerRecv ==
    /\ consumerPc = "range"
    /\ provEventCh.buf # <<>>
    /\ LET event == Head(provEventCh.buf)
           st == OnEvent([textContent |-> textContent, currentToolCall |-> currentToolCall,
                          toolCalls |-> toolCalls, stopReason |-> stopReason, sent |-> <<>>],
                         event)
       IN /\ delivered' = Append(delivered, event)
          /\ textContent' = st.textContent
          /\ currentToolCall' = st.currentToolCall
          /\ toolCalls' = st.toolCalls
          /\ stopReason' = st.stopReason
          /\ sse' = sse \o st.sent
    /\ provEventCh' = [provEventCh EXCEPT !.buf = Tail(@)]
    /\ UNCHANGED <<provErrCh, consumerPc, consumerErr>>
    /\ workerRest
ConsumerRangeEnds ==
    /\ consumerPc = "range"
    /\ provEventCh.buf = <<>>
    /\ provEventCh.closed
    /\ consumerPc' = "readErrCh"
    /\ UNCHANGED <<provEventCh, provErrCh, consumerErr, delivered, rangeVars>>
    /\ workerRest
\* err := <-errCh: a buffered value, or nil once the channel is closed.
ConsumerReadErr ==
    /\ consumerPc = "readErrCh"
    /\ provErrCh.buf # <<>> \/ provErrCh.closed
    /\ IF provErrCh.buf # <<>>
       THEN /\ consumerErr' = Head(provErrCh.buf)
            /\ provErrCh' = [provErrCh EXCEPT !.buf = Tail(@)]
       ELSE /\ consumerErr' = "nil"
            /\ UNCHANGED provErrCh
    /\ consumerPc' = "done"
    /\ UNCHANGED <<provEventCh, delivered, rangeVars>>
    /\ workerRest

\* The caller's context is cancelled.
ProviderCtxCancel ==
    /\ ~provCtxDone
    /\ provCtxDone' = TRUE
    /\ UNCHANGED <<workerPc, provEventCh, provErrCh, body, scanErr, consumerPc,
                   consumerErr, errSends, path, frames, delivered, rangeVars>>

provFrame == UNCHANGED <<smVars, loopVars, toolVars, gateVars, sliceVars, lockVars>>

WorkerNext ==
    \/ MarshalOk /\ provFrame
    \/ MarshalFails /\ provFrame
    \/ NewRequestOk /\ provFrame
    \/ NewRequestFails /\ provFrame
    \/ DoOk /\ provFrame
    \/ DoFails /\ provFrame
    \/ StatusOK /\ provFrame
    \/ StatusNotOK /\ provFrame
    \/ ScanSkip /\ provFrame
    \/ ScanDone /\ provFrame
    \/ ScanEvent /\ provFrame
    \/ ScanEnds /\ provFrame
    \/ ScanFails /\ provFrame
    \/ SelectSend /\ provFrame
    \/ SelectCtxDone /\ provFrame
    \/ AfterLoopError /\ provFrame
    \/ AfterLoopNormal /\ provFrame
    \/ CloseErrCh /\ provFrame
    \/ CloseEventCh /\ provFrame

ConsumerNext ==
    \/ ConsumerRecv /\ provFrame
    \/ ConsumerRangeEnds /\ provFrame
    \/ ConsumerReadErr /\ provFrame

NextProvider ==
    \/ WorkerNext
    \/ ConsumerNext
    \/ ProviderCtxCancel /\ provFrame

\* Both goroutines are scheduled, and every call into the HTTP client and
\* every read of the body returns.
SpecProvider ==
    InitSpecSM /\ [][NextProvider]_vars /\ WF_vars(WorkerNext) /\ WF_vars(ConsumerNext)

\* A consumer that gives up before eventCh is closed, as the caller of
\* anthropic_test.go:283-300 does after the first event.
ConsumerStops ==
    /\ consumerPc = "range"
    /\ consumerPc' = "stopped"
    /\ UNCHANGED <<provEventCh, provErrCh, consumerErr, delivered, rangeVars>>
    /\ workerRest

NextStalled ==
    \/ WorkerNext
    \/ ConsumerNext
    \/ ConsumerStops /\ provFrame
    \/ ProviderCtxCancel /\ provFrame

\* Only the adapter's goroutine is sure to run; the consumer may stop.
SpecStalled == InitSpecSM /\ [][NextStalled]_vars /\ WF_vars(WorkerNext)

(***************************************************************************)
(* The approval endpoint (SpecApprove): sessions are created by any        *)
(* identity, pendings are registered, and POST /apis/v2beta1/ai/approve is *)
(* called with any request, in single-user and in multi-user mode.         *)
(***************************************************************************)
\* extractUserID (server_test.go:1153-1164): empty in single-user mode.
extractUserID(multiUser, header) == IF multiUser THEN header ELSE ""

\* ValidateSessionOwner (manager.go:202-215): TRUE when it returns nil.
ValidateSessionOwner(ss, sessionID, userID) ==
    /\ sessionID \in DOMAIN ss
    /\ ~(ss[sessionID].UserID # "" /\ userID # "" /\ ss[sessionID].UserID # userID)

RequestKinds == {"ok", "not POST", "too large", "bad JSON"}

\* Whether NewApproveHandler gets as far as ApproveToolCall.
ReachesResolve(ss, kind, multiUser, userID, sessionID) ==
    /\ kind = "ok"
    /\ multiUser => (userID # "" /\ ValidateSessionOwner(ss, sessionID, userID))

\* The status NewApproveHandler answers with (server_test.go:938-974).
ApproveStatus(ss, kind, multiUser, userID, sessionID, resolved) ==
    IF kind = "not POST" THEN 405
    ELSE IF kind = "too large" THEN 413
    ELSE IF kind = "bad JSON" THEN 400
    ELSE IF multiUser /\ userID = "" THEN 401
    ELSE IF multiUser /\ ~ValidateSessionOwner(ss, sessionID, userID) THEN 403
    ELSE IF ~resolved THEN 400
    ELSE 200

ApproveRequest ==
    \E kind \in RequestKinds, multiUser \in BOOLEAN, header \in UserIDs,
       sessionID \in SessionIDs, tcid \in PendingIDs, approved \in BOOLEAN :
        LET userID == extractUserID(multiUser, header)
            reaches == ReachesResolve(sessions, kind, multiUser, userID, sessionID)
            r == ResolveConfirmation(sessions, resultCh, sessionID, tcid, approved)
            resolved == reaches /\ r.ok
        IN /\ sessions' = IF reaches THEN r.sessions ELSE sessions
           /\ resultCh' = IF reaches THEN r.resultCh ELSE resultCh
           /\ lastCall' =
                [op |-> "Approve", kind |-> kind, multi |-> multiUser, user |-> userID,
                 sid |-> sessionID, tcid |-> tcid, approved |-> approved,
                 known |-> sessionID \in DOMAIN sessions,
                 owner |-> IF sessionID \in DOMAIN sessions
                           THEN sessions[sessionID].UserID ELSE "",
                 pending |-> /\ sessionID \in DOMAIN sessions
                             /\ tcid \in sessions[sessionID].PendingConfirmations,
                 resolved |-> resolved,
                 status |-> ApproveStatus(sessions, kind, multiUser, userID, sessionID,
                                          resolved)]
           /\ UNCHANGED <<now, expiredIDs, cleanupPc, created>>

\* The chat endpoint creates or finds the session of a request
\* (server.go:98) for any identity.
ApproveGetOrCreate ==
    \E header \in UserIDs, victim \in Victims(sessions) :
        LET r == GetOrCreate(sessions, resultCh, ReqSessionID, ChatModeAgent, header, now,
                             victim) IN
        /\ sessions' = r.sessions
        /\ resultCh' = r.resultCh
        /\ lastCall' = [NoStoreCall EXCEPT !.op = "GetOrCreate", !.sid = r.id, !.ok = TRUE]
        /\ UNCHANGED <<now, expiredIDs, cleanupPc, created>>

\* The engine of a request registers a pending with a fresh channel
\* (server.go:341-352).
ApproveAddPending ==
    \E sessionID \in DOMAIN sessions, tcid \in PendingIDs :
        /\ tcid \notin DOMAIN resultCh
        /\ resultCh' = Put(resultCh, tcid, <<>>)
        /\ sessions' = AddPendingConfirmation(sessions, sessionID, tcid)
        /\ lastCall' = [NoStoreCall EXCEPT !.op = "AddPendingConfirmation", !.sid = sessionID,
                                           !.tcid = tcid, !.ok = TRUE]
        /\ UNCHANGED <<now, expiredIDs, cleanupPc, created>>

NextApprove ==
    \/ ApproveGetOrCreate /\ UNCHANGED <<chatVars, auxVars>>
    \/ ApproveAddPending /\ UNCHANGED <<chatVars, auxVars>>
    \/ ApproveRequest /\ UNCHANGED <<chatVars, auxVars>>

SpecApprove == InitSpecSM /\ [][NextApprove]_vars

(***************************************************************************)
(* The chat endpoint up to the call of StreamChat (SpecGate): requests of  *)
(* any shape arrive from two clients, in single-user and in multi-user     *)
(* mode, while the clock advances.  A request that passes every check      *)
(* opens the stream and runs StreamChat up to its first provider call.     *)
(***************************************************************************)
rateLimitMaxRequests == 2     \* server_test.go:779 sets 20
MaxArrays == 6
rateLimitWindow == 1          \* server_test.go:776 sets one minute

ChatKinds == {"ok", "not POST", "too large", "bad JSON", "no message"}

\* The entries that remain after the leading ones before the cutoff are
\* dropped (server_test.go:805-810).
RECURSIVE DropOld(_, _)
DropOld(entries, cutoff) ==
    IF entries # <<>> /\ Head(entries) < cutoff THEN DropOld(Tail(entries), cutoff)
    ELSE entries

LimitReachedOffByOne(n) == n > rateLimitMaxRequests
LimitReached(n) == n >= rateLimitMaxRequests

\* rateLimiter.allow (server_test.go:798-818)
allow(reqs, key, t) ==
    LET entries == DropOld(IF key \in DOMAIN reqs THEN reqs[key] ELSE <<>>,
                           t - rateLimitWindow)
    IN IF LimitReached(Len(entries))
       THEN [requests |-> Put(reqs, key, entries), ok |-> FALSE]
       ELSE [requests |-> Put(reqs, key, Append(entries, t)), ok |-> TRUE]

\* Whether NewSSEHandler gets as far as the rate limiter.
ReachesLimiter(kind, multiUser, userID) ==
    /\ kind \in {"ok", "no message"}
    /\ ~(multiUser /\ userID = "")

\* The status NewSSEHandler answers with (server_test.go:839-883).
ChatStatus(kind, multiUser, userID, allowed) ==
    IF kind = "not POST" THEN 405
    ELSE IF kind = "too large" THEN 413
    ELSE IF kind = "bad JSON" THEN 400
    ELSE IF multiUser /\ userID = "" THEN 401
    ELSE IF ~allowed THEN 429
    ELSE IF kind = "no message" THEN 400
    ELSE 200

AdmittedAlsoWhenLimited(status) == status \in {200, 429}
Admitted(status) == status = 200

ChatRequest ==
    \E kind \in ChatKinds, multiUser \in BOOLEAN, header \in GateUsers,
       victim \in Victims(sessions) :
        LET userID == extractUserID(multiUser, header)
            key == IF userID = "" THEN RemoteAddr ELSE userID
            consulted == ReachesLimiter(kind, multiUser, userID)
            a == allow(requests, key, now)
            allowed == consulted /\ a.ok
            status == ChatStatus(kind, multiUser, userID, allowed)
            r == GetOrCreate(sessions, resultCh, ReqSessionID, ChatModeAsk, userID, now, victim)
        IN /\ requests' = IF consulted THEN a.requests ELSE requests
           /\ admitted' = IF allowed THEN [admitted EXCEPT ![key, now] = @ + 1] ELSE admitted
           /\ IF Admitted(status)
              THEN /\ sessions' = AddMessage(r.sessions, r.id, Message("user", <<TextBlock>>), now)
                   /\ resultCh' = r.resultCh
                   /\ sse' = <<Frame("session_metadata", 0, FALSE, FALSE, "", "engine"),
                               Frame("progress", 0, FALSE, FALSE, "", "engine")>>
                   /\ providerLog' = <<ListForMode(ChatModeAsk)>>
              ELSE /\ UNCHANGED <<sessions, resultCh>>
                   /\ sse' = <<>>
                   /\ providerLog' = <<>>
           /\ lastCall' = [op |-> "chat", kind |-> kind, multi |-> multiUser, user |-> userID,
                           key |-> key, consulted |-> consulted, allowed |-> allowed,
                           status |-> status]
           /\ UNCHANGED <<now, expiredIDs, cleanupPc, created>>
           /\ UNCHANGED <<reqMode, mode, pc, iteration, toolDefs, eventCh, errCh, textContent,
                          currentToolCall, toolCalls, stopReason, tcIdx, toolResults,
                          ctxDone, retErr, sessID, nextId, executed, outcomes, received,
                          cancelledAt, providerFailed>>
           /\ UNCHANGED <<toolVars, provVars, sliceVars, lockVars>>

NextGate ==
    \/ ChatRequest
    \/ Tick /\ UNCHANGED <<chatVars, auxVars>>

SpecGate == InitSpecSM /\ [][NextGate]_vars

(***************************************************************************)
(* Reads and appends over time (SpecAccess): GetOrCreate, Get, GetMessages *)
(* and AddMessage on any session id while the clock advances.              *)
(***************************************************************************)
NoAccess == [op |-> "none", sid |-> "", id |-> "", stored |-> FALSE, snapshot |-> <<>>]

accessRest == UNCHANGED <<resultCh, now, expiredIDs, cleanupPc, created>>

AccessGetOrCreate ==
    \E sessionID \in SessionIDs, victim \in Victims(sessions) :
        LET r == GetOrCreate(sessions, resultCh, sessionID, ChatModeAsk, "", now, victim) IN
        /\ sessions' = r.sessions
        /\ lastCall' = [NoAccess EXCEPT !.op = "GetOrCreate", !.sid = sessionID, !.id = r.id,
                                        !.stored = TRUE]
        /\ accessRest

AccessGet ==
    \E sessionID \in SessionIDs :
        /\ sessions' = Get(sessions, sessionID, now)
        /\ lastCall' = [NoAccess EXCEPT !.op = "Get", !.sid = sessionID, !.id = sessionID,
                                        !.stored = sessionID \in DOMAIN sessions]
        /\ accessRest

\* GetMessages hands out the snapshot and leaves the store as it is
\* (manager.go:184-198).
AccessGetMessages ==
    \E sessionID \in SessionIDs :
        /\ lastCall' = [NoAccess EXCEPT !.op = "GetMessages", !.sid = sessionID,
                                        !.id = sessionID,
                                        !.stored = sessionID \in DOMAIN sessions,
                                        !.snapshot = IF sessionID \in DOMAIN sessions
                                                     THEN GetMessages(sessions, sessionID)
                                                     ELSE <<>>]
        /\ UNCHANGED sessions
        /\ accessRest

AccessAddMessage ==
    \E sessionID \in SessionIDs :
        /\ sessions' = AddMessage(sessions, sessionID, Message("user", <<TextBlock>>), now)
        /\ lastCall' = [NoAccess EXCEPT !.op = "AddMessage", !.sid = sessionID,
                                        !.id = sessionID,
                                        !.stored = sessionID \in DOMAIN sessions]
        /\ accessRest

NextAccess ==
    \/ AccessGetOrCreate /\ UNCHANGED <<chatVars, auxVars>>
    \/ AccessGet /\ UNCHANGED <<chatVars, auxVars>>
    \/ AccessGetMessages /\ UNCHANGED <<chatVars, auxVars>>
    \/ AccessAddMessage /\ UNCHANGED <<chatVars, auxVars>>
    \/ Tick /\ UNCHANGED <<chatVars, auxVars>>

SpecAccess == InitSpecSM /\ [][NextAccess]_vars

(***************************************************************************)
(* Session.Messages as the Go slice it is (SpecSnapshot): a header         *)
(* [arr, off, len, cap] over a backing array.  AddMessage appends and      *)
(* re-slices (manager.go:230-237), GetMessages makes a new array and       *)
(* copies (manager.go:195-196); the sessions variable keeps the log as the *)
(* sequence the other specifications use.                                  *)
(***************************************************************************)
NilSlice == [arr |-> 0, off |-> 0, len |-> 0, cap |-> 0]
ZeroMessage == Message("", <<>>)
SnapSessionIDs == {"s"}
SnapMessages == {Message("user", <<TextBlock>>), Message("assistant", <<TextBlock>>)}

\* The elements a slice header designates.
Elems(h, sl) == [i \in 1..sl.len |-> h[sl.arr][sl.off + i]]

\* make([]provider.Message, n)
make(h, n) ==
    [arrays |-> Append(h, [i \in 1..n |-> ZeroMessage]),
     slice |-> [arr |-> Len(h) + 1, off |-> 0, len |-> n, cap |-> n]]

\* copy(dst, src) for len(dst) = len(src)
copy(h, dst, src) ==
    IF dst.len = 0 THEN h
    ELSE [h EXCEPT ![dst.arr] =
             [i \in 1..Len(@) |-> IF i - dst.off \in 1..dst.len
                                  THEN h[src.arr][src.off + (i - dst.off)]
                                  ELSE @[i]]]

\* The capacity the runtime may give a slice that has to grow by one.
GrowCaps(sl) == {sl.len + 1, 2 * sl.len} \ {0}

\* append(s, msg): in place while capacity is left, else into a new array.
append(h, sl, msg, newcap) ==
    IF sl.len < sl.cap
    THEN [arrays |-> [h EXCEPT ![sl.arr][sl.off + sl.len + 1] = msg],
          slice |-> [sl EXCEPT !.len = @ + 1]]
    ELSE [arrays |-> Append(h, [i \in 1..newcap |->
                                   IF i <= sl.len THEN h[sl.arr][sl.off + i]
                                   ELSE IF i = sl.len + 1 THEN msg
                                   ELSE ZeroMessage]),
          slice |-> [arr |-> Len(h) + 1, off |-> 0, len |-> sl.len + 1, cap |-> newcap]]

\* s[excess:]
Reslice(sl, excess) ==
    [sl EXCEPT !.off = @ + excess, !.len = @ - excess, !.cap = @ - excess]

\* AddMessage on the slice (manager.go:230-237)
AddMessageSlice(h, sl, msg, newcap) ==
    LET a == append(h, sl, msg, newcap) IN
    IF a.slice.len > MaxMessagesPerSession
    THEN [arrays |-> a.arrays, slice |-> Reslice(a.slice, a.slice.len - MaxMessagesPerSession)]
    ELSE a

\* What a caller reads through the live Session (the *Session of Get,
\* manager.go:170-181): whatever Session.Messages holds at that moment.
GetMessagesLive(h, ms, id) ==
    [arrays |-> h, live |-> TRUE, slice |-> ms[id]]
\* GetMessages (manager.go:195-197): a new array holding a copy.
GetMessagesCopy(h, ms, id) ==
    LET m == make(h, ms[id].len) IN
    [arrays |-> copy(m.arrays, m.slice, ms[id]), live |-> FALSE, slice |-> m.slice]

\* What the holder of a snapshot sees now.
SnapshotElems ==
    IF snapshot.live
    THEN Elems(arrays, msgSlice[snapshot.id])
    ELSE Elems(arrays, snapshot.slice)

snapRest == UNCHANGED <<resultCh, now, expiredIDs, cleanupPc, lastCall, created>>

\* A new session starts with Messages: nil (manager.go:129).
SnapCreate ==
    \E sessionID \in SnapSessionIDs :
        /\ sessionID \notin DOMAIN sessions
        /\ sessions' = GetOrCreate(sessions, resultCh, sessionID, ChatModeAsk, "", now,
                                   sessionID).sessions
        /\ msgSlice' = [id \in DOMAIN sessions \cup {sessionID} |->
                            IF id \in DOMAIN msgSlice THEN msgSlice[id] ELSE NilSlice]
        /\ UNCHANGED <<arrays, snapshot>>
        /\ snapRest

SnapAddMessage ==
    \E sessionID \in DOMAIN sessions, msg \in SnapMessages :
    \E newcap \in GrowCaps(msgSlice[sessionID]) :
        LET r == AddMessageSlice(arrays, msgSlice[sessionID], msg, newcap) IN
        /\ Len(arrays) < MaxArrays
        /\ sessions' = AddMessage(sessions, sessionID, msg, now)
        /\ arrays' = r.arrays
        /\ msgSlice' = [msgSlice EXCEPT ![sessionID] = r.slice]
        /\ snapshot' = IF snapshot.id = sessionID
                       THEN [snapshot EXCEPT
                                !.added = TRUE,
                                !.trimmed = @ \/ msgSlice[sessionID].len = MaxMessagesPerSession]
                       ELSE snapshot
        /\ snapRest

SnapGetMessages ==
    \E sessionID \in DOMAIN sessions :
        LET r == GetMessagesCopy(arrays, msgSlice, sessionID) IN
        /\ Len(arrays) < MaxArrays
        /\ arrays' = r.arrays
        /\ snapshot' = [id |-> sessionID, live |-> r.live, slice |-> r.slice,
                        taken |-> IF r.live THEN Elems(r.arrays, msgSlice[sessionID])
                                  ELSE Elems(r.arrays, r.slice),
                        added |-> FALSE, trimmed |-> FALSE]
        /\ UNCHANGED <<sessions, msgSlice>>
        /\ snapRest

NextSnapshot ==
    \/ SnapCreate /\ UNCHANGED <<chatVars, toolVars, provVars, gateVars, lockVars>>
    \/ SnapAddMessage /\ UNCHANGED <<chatVars, toolVars, provVars, gateVars, lockVars>>
    \/ SnapGetMessages /\ UNCHANGED <<chatVars, toolVars, provVars, gateVars, lockVars>>

SpecSnapshot == InitSpecSM /\ [][NextSnapshot]_vars

(***************************************************************************)
(* The message log of the sessions (SpecLog): one identity sends requests  *)
(* under the session ids it knows; each request is a GetOrCreate followed  *)
(* by AddMessage calls (server.go:98, 112, 252, 288).                      *)
(***************************************************************************)
LogMessages == {Message("user", <<TextBlock>>), Message("assistant", <<TextBlock>>)}

LogGetOrCreate ==
    \E sessionID \in SessionIDs, victim \in Victims(sessions) :
        LET r == GetOrCreate(sessions, resultCh, sessionID, ChatModeAsk, ReqUserID, now, victim) IN
        /\ sessions' = r.sessions
        /\ resultCh' = r.resultCh
        /\ lastCall' = [op |-> "GetOrCreate", sid |-> sessionID, id |-> r.id,
                        isNew |-> r.isNew, ok |-> TRUE, msg |-> <<>>]
        /\ UNCHANGED <<now, expiredIDs, cleanupPc, created>>

\* AddMessage returns an error for a session that is not stored.
LogAddMessage ==
    \E sessionID \in SessionIDs, msg \in LogMessages :
        /\ sessions' = AddMessage(sessions, sessionID, msg, now)
        /\ lastCall' = [op |-> "AddMessage", sid |-> sessionID, id |-> sessionID,
                        isNew |-> FALSE, ok |-> sessionID \in DOMAIN sessions, msg |-> msg]
        /\ UNCHANGED <<resultCh, now, expiredIDs, cleanupPc, created>>

NextLog ==
    \/ LogGetOrCreate /\ UNCHANGED <<chatVars, auxVars>>
    \/ LogAddMessage /\ UNCHANGED <<chatVars, auxVars>>

SpecLog == InitSpecSM /\ [][NextLog]_vars

(***************************************************************************)
(* Properties.  Helpers over the observations first.                       *)
(***************************************************************************)
Frames(type) == {i \in DOMAIN sse : sse[i].type = type}
ResultFrames(id) == {i \in Frames("tool_result") : sse[i].id = id}
Mutating(name) == RegistryGet(name) /\ ~IsReadOnly(name)
OutcomesOf(kinds) == {i \in DOMAIN outcomes : outcomes[i].kind \in kinds}

\* C1: a request whose mode is anything but Agent (Ask, 0 or another
\* integer) never has Execute invoked for a tool that is not read-only and
\* never gets a confirmation_request event; every such tool call ends in a
\* result with is_error = true.
C1_NonAgentNeverMutates ==
    reqMode # ChatModeAgent =>
        /\ \A e \in executed : IsReadOnly(e.name)
        /\ Frames("confirmation_request") = {}
        /\ \A i \in DOMAIN outcomes :
             Mutating(outcomes[i].name) =>
                 outcomes[i].isError /\ outcomes[i].kind = "blocked"

\* A request with an out-of-range mode in which the model asked for
\* delete_run and the call was answered, the request being finished.
C1_Witness ==
    /\ reqMode \notin {ChatModeAsk, ChatModeAgent}
    /\ pc = "done"
    /\ \E i \in DOMAIN outcomes :
         outcomes[i].name = "delete_run" /\ outcomes[i].isError

\* C2: in Agent mode Execute runs for a tool that is not read-only, tool
\* call id T, only after a decision approved = true was received on T's
\* result channel; a call that ended in a denial, a confirmation timeout or
\* a cancellation never has Execute invoked for T.
C2_ExecuteOnlyAfterApproval ==
    mode = ChatModeAgent =>
        /\ \A e \in executed : ~IsReadOnly(e.name) => <<e.id, TRUE>> \in received
        /\ \A i \in OutcomesOf({"denied", "timeout", "cancelled"}) :
             \A e \in executed : e.id # outcomes[i].id

\* One tool call of delete_run approved and executed, another one refused.
C2_Witness ==
    /\ mode = ChatModeAgent
    /\ \E e \in executed : e.name = "delete_run" /\ <<e.id, TRUE>> \in received
    /\ \E i \in OutcomesOf({"denied", "timeout", "cancelled"}) :
         outcomes[i].name = "delete_run"

\* C3: when the normalised mode is Ask, the tool definitions of every
\* provider call, in every iteration, hold read-only tools only.
C3_AskSeesReadOnlyTools ==
    mode = ChatModeAsk =>
        \A i \in DOMAIN providerLog : \A t \in providerLog[i] : IsReadOnly(t)

\* An Ask request that called the provider in two iterations.
C3_Witness ==
    /\ mode = ChatModeAsk
    /\ Len(providerLog) >= 2
    /\ providerLog[2] # {}

\* C10: one StreamChat invocation calls the provider at most
\* maxAgenticLoopIterations times; when the cap ends the loop no error event
\* was emitted and StreamChat returned nil.
C10_IterationCap ==
    /\ Len(providerLog) <= maxAgenticLoopIterations
    /\ (pc \in {"returned", "done"} /\ iteration >= maxAgenticLoopIterations) =>
          /\ retErr = "nil"
          /\ Frames("error") = {}

\* The model asked for tools in every turn until the cap ended the loop.
C10_Witness ==
    /\ pc = "done"
    /\ iteration = maxAgenticLoopIterations
    /\ Len(providerLog) = maxAgenticLoopIterations

\* C4: when the stream has terminated, every tool call that the engine
\* announced with a tool_call event carrying arguments and then handled
\* (executed, unknown, blocked in Ask mode, denied or timed out) is matched
\* by exactly one tool_result event with the same tool call id, or the
\* stream holds an error event (one or, as the handler adds its own, more).
C4_EveryToolCallAnswered ==
    pc = "done" =>
        \A i \in Frames("tool_call") :
            (sse[i].args /\ \E k \in DOMAIN outcomes : outcomes[k].id = sse[i].id) =>
                \/ Cardinality(ResultFrames(sse[i].id)) = 1
                \/ Frames("error") # {}

\* C5: when StreamChat has returned nil and the stream has terminated,
\* every confirmation_request whose wait ended (by a denial, an approval,
\* the timeout or the cancellation of the context) is followed by exactly
\* one tool_result event for that tool call, with success = false after a
\* denial, or the stream was terminated by cancellation.
C5_EveryConfirmationAnswered ==
    (pc = "done" /\ retErr = "nil") =>
        \A i \in Frames("confirmation_request") :
            \A k \in OutcomesOf({"denied", "executed", "timeout", "cancelled"}) :
                outcomes[k].id = sse[i].id =>
                    \/ /\ Cardinality(ResultFrames(sse[i].id)) = 1
                       /\ outcomes[k].kind = "denied" =>
                              \A r \in ResultFrames(sse[i].id) : ~sse[r].success
                    \/ ctxDone

\* C6: once the request context is cancelled while StreamChat drains the
\* provider's events or waits on a confirmation, StreamChat does not call
\* sendEvent again.
C6_NoEventAfterCancel ==
    \A i \in DOMAIN sse : sse[i].by = "engine" => ~sse[i].cancelled

\* C7: when a provider call of the request failed, the finished SSE response
\* holds exactly one error event, with code provider_error, then [DONE], and
\* StreamChat returned a non-nil error.
C7_SingleProviderError ==
    (pc = "done" /\ providerFailed) =>
        /\ Cardinality(Frames("error")) = 1
        /\ \A i \in Frames("error") : sse[i].code = "provider_error"
        /\ sse[Len(sse)].type = "[DONE]"
        /\ retErr = "err"

\* C8: GetOrCreate called by a non-empty identity never returns a session
\* whose owner is non-empty and another identity, whether found under the
\* requested id or under the derived id.
C8_NeverServedToOther ==
    (lastCall.op = "GetOrCreate" /\ lastCall.user # "") =>
        lastCall.owner \in {"", lastCall.user}

\* C9 as stated: once a non-empty identity A has created session S, every
\* later GetOrCreate(S, _, B) with B non-empty and different from A returns
\* a session whose id is not S.
C9_DistinctAfterCreate ==
    ( /\ lastCall.op = "GetOrCreate"
      /\ lastCall.user # ""
      /\ \E A \in UserIDs \ {"", lastCall.user} : <<lastCall.sid, A>> \in created )
    => lastCall.id # lastCall.sid

\* C9 as amended: while session S is stored with non-empty owner A,
\* GetOrCreate(S, _, B) with B non-empty and different from A returns a
\* session whose id is not S.
C9_DistinctWhileStored ==
    ( /\ lastCall.op = "GetOrCreate"
      /\ lastCall.user # ""
      /\ lastCall.preStored
      /\ lastCall.preOwner \notin {"", lastCall.user} )
    => lastCall.id # lastCall.sid

\* "a" created "s" and it is still stored when "b" asks for it.
C9_Witness ==
    /\ lastCall.op = "GetOrCreate"
    /\ lastCall.sid = "s"
    /\ lastCall.user = "b"
    /\ lastCall.preStored
    /\ lastCall.preOwner = "a"
    /\ <<"s", "a">> \in created
    /\ lastCall.id = "s-b"

\* C11: every StreamChat invocation eventually returns, given that every
\* provider stream closes, every Execute returns and the goroutine keeps
\* running: the iteration cap ends a model that keeps asking for tools and
\* the confirmation timeout ends a wait nobody answers.
C11_StreamChatReturns == <>(pc \in {"returned", "done"})

\* A request that waited for a confirmation until the timeout, went on
\* asking for tools up to the cap, and returned.
C11_Witness ==
    /\ pc = "done"
    /\ iteration = maxAgenticLoopIterations
    /\ OutcomesOf({"timeout"}) # {}

\* C12: after every successful AddMessage the log holds at most
\* MaxMessagesPerSession messages, the appended message is its last element,
\* and the rest of it is the old log without its oldest messages, as many
\* as the limit forces out, in the old order.
C12_AddMessageTrims ==
    [][ (lastCall'.op = "AddMessage" /\ lastCall'.ok) =>
          LET old == sessions[lastCall'.sid].Messages
              new == sessions'[lastCall'.sid].Messages
              kept == Len(new) - 1
          IN /\ Len(new) <= MaxMessagesPerSession
             /\ Len(new) >= 1
             /\ new[Len(new)] = lastCall'.msg
             /\ Len(new) = IF Len(old) + 1 > MaxMessagesPerSession
                           THEN MaxMessagesPerSession ELSE Len(old) + 1
             /\ \A i \in 1..kept : new[i] = old[Len(old) - kept + i] ]_vars

\* A successful AddMessage on a full log whose oldest and newest messages
\* differ.
C12_Witness ==
    /\ lastCall.op = "AddMessage"
    /\ lastCall.ok
    /\ Len(sessions[lastCall.sid].Messages) = MaxMessagesPerSession
    /\ sessions[lastCall.sid].Messages[1] # lastCall.msg
    /\ sessions[lastCall.sid].Messages[1] # sessions[lastCall.sid].Messages[2]

\* C16: GetOrCreate with a stored session id, called by the identity that
\* owns the session, returns that session, and its message log is what it
\* was, so the messages of consecutive requests pile up in one log.
C16_SameIdentityReusesSession ==
    [][ ( /\ lastCall'.op = "GetOrCreate"
          /\ lastCall'.sid \in DOMAIN sessions
          /\ sessions[lastCall'.sid].UserID = ReqUserID ) =>
          /\ lastCall'.id = lastCall'.sid
          /\ ~lastCall'.isNew
          /\ sessions'[lastCall'.sid].ID = sessions[lastCall'.sid].ID
          /\ sessions'[lastCall'.sid].Messages = sessions[lastCall'.sid].Messages ]_vars

\* A second request under the same id found the messages of the first.
C16_Witness ==
    /\ lastCall.op = "GetOrCreate"
    /\ ~lastCall.isNew
    /\ lastCall.id = lastCall.sid
    /\ Len(sessions[lastCall.id].Messages) >= 2

\* C14: after any sequence of GetOrCreate calls, also ones that take the
\* ownership-conflict path, at most MaxSessions sessions are stored.
C14_AtMostMaxSessions == Cardinality(DOMAIN sessions) <= MaxSessions


\* The step that ends a CleanupExpired call that found candidates.
SweepStep == cleanupPc = "sweep" /\ cleanupPc' = "idle"

\* What a CleanupExpired pass does apart from choosing the sessions: the
\* sessions that stay are untouched, each pending channel of a removed
\* session that has room receives approved=false, a full one is left as it
\* is, and no channel grows beyond its capacity.
SweepEffects ==
    LET removed == DOMAIN sessions \ DOMAIN sessions' IN
    /\ DOMAIN sessions' \subseteq DOMAIN sessions
    /\ \A id \in DOMAIN sessions' : sessions'[id] = sessions[id]
    /\ DOMAIN resultCh' = DOMAIN resultCh
    /\ \A c \in DOMAIN resultCh :
         /\ Len(resultCh'[c]) <= ChanCap
         /\ resultCh'[c] =
              IF (\E id \in removed : c \in sessions[id].PendingConfirmations)
                 /\ resultCh[c] = <<>>
              THEN <<FALSE>> ELSE resultCh[c]

\* C13 (as stated): CleanupExpired removes exactly the sessions whose last
\* access is older than SessionTimeout at the time of the re-check and keeps
\* every other session; each pending confirmation of a removed session
\* receives approved=false and a full pending channel neither blocks nor
\* panics.
C13_RemovesExpiredAtRecheck ==
    [][SweepStep =>
        /\ DOMAIN sessions \ DOMAIN sessions' =
             {id \in DOMAIN sessions : now - sessions[id].LastAccessedAt > SessionTimeout}
        /\ SweepEffects]_vars

\* C13 (amended): CleanupExpired removes exactly the sessions that its
\* read-lock scan collected and whose last access is still older than
\* SessionTimeout at the re-check; every other session is kept, the ones
\* touched between the two phases and the ones that expired only after the
\* scan included; pendings of removed sessions are denied without blocking.
C13_RemovesCollectedStillExpired ==
    [][SweepStep =>
        /\ DOMAIN sessions \ DOMAIN sessions' =
             {id \in DOMAIN sessions : /\ id \in expiredIDs
                                       /\ now - sessions[id].LastAccessedAt > SessionTimeout}
        /\ SweepEffects]_vars

\* A cleanup pass removed the session of the last registered pending, whose
\* fresh channel now holds the denial.
C13_Witness ==
    /\ cleanupPc = "idle"
    /\ lastCall.op = "AddPendingConfirmation"
    /\ lastCall.ok
    /\ lastCall.buffered = <<>>
    /\ lastCall.sid \notin DOMAIN sessions
    /\ resultCh[lastCall.tcid] = <<FALSE>>

\* A ResolveConfirmation call that repeats the call before it, which (or a
\* call before which) resolved the pending.
RepeatedResolveStep ==
    /\ lastCall'.op = "ResolveConfirmation"
    /\ lastCall'.again
    /\ now' = now
    /\ cleanupPc' = cleanupPc

\* C15 (as stated): a repeated ResolveConfirmation(sid, tcid, v) after the
\* first one for the same pending tool call returns no error, does not block
\* and does not change the decision already delivered.
C15_RepeatedResolveNoError ==
    [][RepeatedResolveStep => lastCall'.ok /\ resultCh' = resultCh]_vars

\* C15 (amended): a repeated ResolveConfirmation(sid, tcid, v) after the
\* first one returns an error (the first call removed the pending), does not
\* block and changes neither the delivered decision nor any session.
C15_RepeatedResolveRejected ==
    [][RepeatedResolveStep =>
        /\ ~lastCall'.ok
        /\ resultCh' = resultCh
        /\ sessions' = sessions]_vars

\* An approval was delivered and a following denial of the same tool call
\* was rejected.
C15_Witness ==
    /\ lastCall.op = "ResolveConfirmation"
    /\ lastCall.again
    /\ ~lastCall.ok
    /\ ~lastCall.approved
    /\ lastCall.sid \in DOMAIN sessions
    /\ resultCh[lastCall.tcid] = <<TRUE>>


\* The names in a recorded ListForMode result.
Names(l) == {l.defs[i] : i \in DOMAIN l.defs}

\* C17: a SecuredTool over a read-only tool is neither blocked nor in need
\* of confirmation in Ask and in Agent mode; over a mutating tool it is
\* blocked in Ask and not in Agent, and needs confirmation in Agent and not
\* in Ask.
C17_SecuredToolTruthTable ==
    probed.found =>
        /\ (probed.readOnly /\ probed.mode \in {ChatModeAsk, ChatModeAgent})
              => ~probed.blocked /\ ~probed.confirm
        /\ (~probed.readOnly /\ probed.mode = ChatModeAsk)
              => probed.blocked /\ ~probed.confirm
        /\ (~probed.readOnly /\ probed.mode = ChatModeAgent)
              => ~probed.blocked /\ probed.confirm

\* A registered mutating tool was asked about Ask mode.
C17_Witness ==
    /\ probed.found
    /\ ~probed.readOnly
    /\ probed.mode = ChatModeAsk
    /\ probed.blocked

\* C18: for every set of registered tools, the names of ListForMode(Ask)
\* are among those of ListForMode(Agent), ListForMode(Agent) holds every
\* registered tool exactly once and nothing else, and ListForMode(Ask) holds
\* exactly the read-only ones.
C18_AskWithinAgent ==
    LET ask == listed[ChatModeAsk]
        agent == listed[ChatModeAgent]
    IN /\ (ask.done /\ agent.done) => Names(ask) \subseteq Names(agent)
       /\ agent.done =>
            /\ Names(agent) \subseteq registry
            /\ \A t \in registry :
                 Cardinality({i \in DOMAIN agent.defs : agent.defs[i] = t}) = 1
       /\ ask.done =>
            /\ Names(ask) = {t \in registry : IsReadOnly(t)}
            /\ \A t \in Names(ask) :
                 Cardinality({i \in DOMAIN ask.defs : ask.defs[i] = t}) = 1

\* Both lists were taken of a registry with read-only and mutating tools.
C18_Witness ==
    /\ registry = ToolUniverse
    /\ listed[ChatModeAsk].done
    /\ listed[ChatModeAgent].done
    /\ Names(listed[ChatModeAsk]) # Names(listed[ChatModeAgent])

\* C19: for every ChatMode value m passed to ListForMode, a mutating tool
\* is in the result only if m is Agent, and read-only tools are in the
\* result for every m.
C19_MutatingOnlyInAgent ==
    \A m \in RequestModes :
        listed[m].done =>
            \A t \in registry :
                /\ IsReadOnly(t) => t \in Names(listed[m])
                /\ (~IsReadOnly(t) /\ t \in Names(listed[m])) => m = ChatModeAgent


\* C20: in every StreamChat call of the provider adapter at most one value
\* is ever sent on errCh, eventCh is eventually closed on every path, and a
\* consumer that drains eventCh and then reads errCh once gets past that
\* read.
C20_ProviderChannels ==
    /\ [](errSends <= 1)
    /\ <>(provEventCh.closed)
    /\ <>(consumerPc = "done")

\* The body was scanned past an event, reading it then failed, and the
\* consumer received that one error after the events.
C20_Witness ==
    /\ path = "scanner error"
    /\ errSends = 1
    /\ provEventCh.closed
    /\ provEventCh.buf = <<>>
    /\ body # <<>>
    /\ consumerPc = "done"
    /\ consumerErr = "err"


\* C21: if the context is cancelled while the adapter's worker is blocked
\* sending on a full eventCh whose consumer has stopped reading, the worker
\* terminates and both eventCh and errCh are closed.
C21_CancelFreesBlockedWorker ==
    (/\ workerPc = "select"
     /\ Len(provEventCh.buf) = EventChCap
     /\ consumerPc = "stopped"
     /\ provCtxDone)
    ~> (workerPc = "exited" /\ provEventCh.closed /\ provErrCh.closed)

\* The worker left through ctx.Done with eventCh still full and unread.
C21_Witness ==
    /\ workerPc = "exited"
    /\ path = "ctx done"
    /\ consumerPc = "stopped"
    /\ Len(provEventCh.buf) = EventChCap
    /\ provEventCh.closed
    /\ provErrCh.closed
    /\ errSends = 0


\* The events of the lines the scan loop reaches: those before the first
\* "data: [DONE]" line that decode to an event.
RECURSIVE EventsOf(_)
EventsOf(lines) ==
    IF lines = <<>> \/ Head(lines).kind = "done" THEN <<>>
    ELSE IF Head(lines).kind = "event" THEN <<Head(lines).ev>> \o EventsOf(Tail(lines))
    ELSE EventsOf(Tail(lines))

IsPrefix(a, b) == Len(a) <= Len(b) /\ a = SubSeq(b, 1, Len(a))

IsTextDelta(e) == e.Type = "content_block_delta" /\ e.Sub = "text_delta"
IsToolUseStart(e) == e.Type = "content_block_start" /\ e.Sub = "tool_use"

\* C22: within a turn the adapter delivers the events on eventCh in the
\* order of the provider's SSE frames, none twice and none out of place
\* (all of them when the stream ends normally); the engine emits the
\* markdown_chunk and tool_call events in that same order; and the client
\* stream is only written by the task that ranges over eventCh.
C22_EventsInProviderOrder ==
    /\ [](/\ IsPrefix(delivered \o provEventCh.buf, EventsOf(frames))
          /\ (workerPc = "exited" /\ path = "normal end")
                => delivered \o provEventCh.buf = EventsOf(frames)
          /\ LET in == SelectSeq(delivered, LAMBDA e : IsTextDelta(e) \/ IsToolUseStart(e))
                 out == SelectSeq(sse, LAMBDA f : f.type = "markdown_chunk"
                                                   \/ (f.type = "tool_call" /\ ~f.args))
             IN /\ Len(out) = Len(in)
                /\ \A i \in DOMAIN in :
                     /\ IsTextDelta(in[i]) <=> out[i].type = "markdown_chunk"
                     /\ IsToolUseStart(in[i]) => out[i].id = in[i].ID
          /\ \A j \in DOMAIN sse :
               (sse[j].type = "tool_call" /\ sse[j].args) =>
                   \E i \in 1..(j - 1) : /\ sse[i].type = "tool_call"
                                          /\ ~sse[i].args
                                          /\ sse[i].id = sse[j].id)
    /\ [][sse' # sse => (consumerPc = "range" /\ delivered' # delivered
                           /\ workerPc' = workerPc)]_vars

\* A text delta and then a tool_use block were streamed, delivered and
\* forwarded: markdown_chunk, tool_call, completed tool_call.
C22_Witness ==
    /\ consumerPc = "done"
    /\ Len(delivered) = MaxLines
    /\ IsTextDelta(delivered[1])
    /\ IsToolUseStart(delivered[2])
    /\ Len(sse) = MaxLines
    /\ sse[1].type = "markdown_chunk"
    /\ sse[Len(sse)].type = "tool_call"
    /\ sse[Len(sse)].args


\* C23: in every SSE response of the chat endpoint session_metadata is the
\* first event, the progress event of a loop iteration precedes the provider
\* events of that iteration, and the [DONE] frame is written exactly once
\* and last, by the handler, whether StreamChat returned nil or an error.
C23_StreamFraming ==
    /\ sse # <<>> => sse[1].type = "session_metadata"
    /\ \A j \in DOMAIN sse :
         sse[j].type \in {"markdown_chunk", "tool_call"} =>
             \E i \in 1..(j - 1) : sse[i].type = "progress" /\ sse[i].iter = sse[j].iter
    /\ \A i \in Frames("[DONE]") : i = Len(sse) /\ sse[i].by = "handler" /\ pc = "done"
    /\ pc = "done" => (sse # <<>> /\ sse[Len(sse)].type = "[DONE]")

\* StreamChat failed in its second iteration, after provider events of
\* that iteration, and the response was closed with [DONE].
C23_Witness ==
    /\ pc = "done"
    /\ retErr = "err"
    /\ sse[Len(sse)].type = "[DONE]"
    /\ \E j \in DOMAIN sse : sse[j].type = "markdown_chunk" /\ sse[j].iter = 1


\* C24: the approval endpoint answers 400 for an unknown session id and for
\* an unknown tool-call id, in single-user and in multi-user mode, and 403
\* when in multi-user mode the session is owned by a different identity;
\* only a successful ResolveConfirmation yields {success:true}.
C24_ApprovalStatus ==
    (/\ lastCall.op = "Approve"
     /\ lastCall.kind = "ok"
     /\ ~(lastCall.multi /\ lastCall.user = "")) =>
        LET conflict == /\ lastCall.multi
                        /\ lastCall.known
                        /\ lastCall.owner \notin {"", lastCall.user}
        IN /\ ~lastCall.known => lastCall.status = 400
           /\ conflict => lastCall.status = 403
           /\ (lastCall.known /\ ~conflict /\ ~lastCall.pending) => lastCall.status = 400
           /\ lastCall.status = 200 <=> lastCall.resolved


\* A step of the chat endpoint that answered with the given status.
ChatAnswered(codes) ==
    /\ lastCall'.op = "chat"
    /\ now' = now
    /\ lastCall'.status \in codes

\* C25: a chat request rejected as a client error (405, 413, 400 for a
\* malformed body or a missing message, 401, 429) opens no SSE stream,
\* creates no session, appends no message and makes no provider call.
C25_RejectedHasNoEffect ==
    [][ChatAnswered({405, 413, 400, 401, 429}) =>
        /\ sse' = <<>>
        /\ providerLog' = <<>>
        /\ sessions' = sessions
        /\ resultCh' = resultCh]_vars

\* A request was answered 429 after earlier requests had created a session.
C25_Witness ==
    /\ lastCall.op = "chat"
    /\ lastCall.status = 429
    /\ sse = <<>>
    /\ providerLog = <<>>
    /\ ReqSessionID \in DOMAIN sessions
    /\ Len(sessions[ReqSessionID].Messages) = rateLimitMaxRequests

\* The number of requests admitted for a key at the times from..to.
RECURSIVE AdmittedIn(_, _, _)
AdmittedIn(key, from, to) ==
    IF from > to THEN 0
    ELSE (IF from \in 0..MaxTime THEN admitted[key, from] ELSE 0)
         + AdmittedIn(key, from + 1, to)

\* C26: for each key allow() admits at most rateLimitMaxRequests requests
\* within any window of rateLimitWindow; a request is admitted exactly when
\* fewer than that many requests of its own key were admitted within the
\* window that ends now, so keys do not affect each other and requests are
\* admitted again once earlier ones have left the window; a rejected
\* request is not recorded and no call touches the entries of another key.
C26_RateLimit ==
    /\ [](\A key \in RateKeys, t \in 0..MaxTime :
            AdmittedIn(key, t, t + rateLimitWindow) <= rateLimitMaxRequests)
    /\ [][(lastCall'.op = "chat" /\ now' = now /\ lastCall'.consulted) =>
            LET key == lastCall'.key IN
            /\ lastCall'.allowed <=>
                 AdmittedIn(key, now - rateLimitWindow, now) < rateLimitMaxRequests
            /\ ~lastCall'.allowed =>
                 /\ admitted' = admitted
                 /\ key \in DOMAIN requests
                 /\ Len(requests'[key]) <= Len(requests[key])
            /\ \A other \in DOMAIN requests \ {key} : requests'[other] = requests[other]]_vars

\* A key that was refused when its window was full is admitted again two
\* ticks later.
C26_Witness ==
    /\ lastCall.op = "chat"
    /\ lastCall.allowed
    /\ lastCall.key = "a"
    /\ now = rateLimitWindow + 1
    /\ admitted["a", 0] = rateLimitMaxRequests
    /\ admitted[RemoteAddr, 0] = rateLimitMaxRequests
    /\ requests["a"] = <<now>>


\* C27: every read of or append to a stored session (GetOrCreate, Get,
\* GetMessages and AddMessage) sets the session's last-accessed time to the
\* time of the call.
C27_EveryAccessTouches ==
    [][(/\ lastCall'.op \in {"GetOrCreate", "Get", "GetMessages", "AddMessage"}
        /\ now' = now
        /\ lastCall'.stored)
       => sessions'[lastCall'.id].LastAccessedAt = now]_vars

\* The slice held in Session.Messages designates the session's log.
SliceHoldsLog ==
    \A id \in DOMAIN msgSlice : Elems(arrays, msgSlice[id]) = sessions[id].Messages

\* C28: a snapshot returned by GetMessages is unaffected by later operations
\* on the session: AddMessage calls after it, trimming ones included, change
\* neither its length nor its elements; it still is the log as it was
\* when GetMessages returned.
C28_SnapshotIndependent ==
    snapshot # NoSnapshot =>
        /\ SnapshotElems = snapshot.taken
        /\ Len(SnapshotElems) = Len(snapshot.taken)

\* A held, non-empty snapshot after an AddMessage that trimmed the log.
C28_Witness ==
    /\ snapshot # NoSnapshot
    /\ snapshot.added
    /\ snapshot.trimmed
    /\ Len(snapshot.taken) = MaxMessagesPerSession
    /\ sessions[snapshot.id].Messages # snapshot.taken

\* The ids of the blocks of one type in a message, in order.
BlockIDs(m, type) ==
    LET F[i \in 0..Len(m.Blocks)] ==
            IF i = 0 THEN <<>>
            ELSE IF m.Blocks[i].Type = type THEN Append(F[i - 1], m.Blocks[i].ID)
            ELSE F[i - 1]
    IN F[Len(m.Blocks)]

RolesAlternate(msgs) ==
    \A i \in 1..(Len(msgs) - 1) : msgs[i].Role # msgs[i + 1].Role

ToolUsesAnswered(msgs) ==
    \A i \in 1..Len(msgs) :
        (msgs[i].Role = "assistant" /\ BlockIDs(msgs[i], "tool_use") # <<>>) =>
            /\ i < Len(msgs)
            /\ msgs[i + 1].Role = "user"
            /\ BlockIDs(msgs[i + 1], "tool_result") = BlockIDs(msgs[i], "tool_use")

ToolResultsAsked(msgs) ==
    \A i \in 1..Len(msgs) :
        BlockIDs(msgs[i], "tool_result") # <<>> =>
            /\ i > 1
            /\ msgs[i - 1].Role = "assistant"
            /\ BlockIDs(msgs[i - 1], "tool_use") = BlockIDs(msgs[i], "tool_result")

\* C29: after any sequence of StreamChat runs on a session the message log
\* keeps the conversational contract: the roles alternate, every assistant
\* message with tool_use blocks is immediately followed by a user message
\* holding one tool_result per tool_use id, and no tool_result appears
\* without its preceding tool_use.
C29_ConversationalContract ==
    (pc = "done" /\ sessID \in DOMAIN sessions) =>
        /\ RolesAlternate(sessions[sessID].Messages)
        /\ ToolUsesAnswered(sessions[sessID].Messages)
        /\ ToolResultsAsked(sessions[sessID].Messages)

LastMessage(id) == sessions'[id].Messages[Len(sessions'[id].Messages)]

\* C30: for each turn that requests tools, the assistant message appended to
\* the session holds the text block first and then the tool_use blocks in
\* the order they were committed, and the message appended after execution
\* has role user and holds exactly one tool_result per tool call in that
\* same order, also for a call whose execution returned an error.
C30_TurnMessages ==
    [][/\ (pc = "drain" /\ pc' = "exec" /\ sessID \in DOMAIN sessions') =>
            LET m == LastMessage(sessID)
                t == IF textContent THEN 1 ELSE 0
            IN /\ m.Role = "assistant"
               /\ Len(m.Blocks) = t + Len(toolCalls)
               /\ textContent => m.Blocks[1].Type = "text"
               /\ \A i \in 1..Len(toolCalls) :
                     /\ m.Blocks[t + i].Type = "tool_use"
                     /\ m.Blocks[t + i].ID = toolCalls[i].ID
       /\ (iteration' = iteration + 1 /\ sessID \in DOMAIN sessions') =>
            LET m == LastMessage(sessID)
                base == Len(outcomes') - Len(toolCalls)
            IN /\ m.Role = "user"
               /\ Len(m.Blocks) = Len(toolCalls)
               /\ \A i \in 1..Len(toolCalls) :
                     /\ m.Blocks[i].Type = "tool_result"
                     /\ m.Blocks[i].ID = toolCalls[i].ID
                     /\ outcomes'[base + i].id = toolCalls[i].ID
                     /\ m.Blocks[i].IsError = outcomes'[base + i].isError
                     /\ outcomes'[base + i].kind # "executed" => m.Blocks[i].IsError
      ]_vars

\* A turn with text and two tool calls, the first of which returned an error
\* and the second of which ran, after both messages were appended.
C30_Witness ==
    /\ pc = "loop"
    /\ iteration = 1
    /\ textContent
    /\ Len(toolCalls) = 2
    /\ sessID \in DOMAIN sessions
    /\ LET msgs == sessions[sessID].Messages IN
       /\ Len(msgs) >= 3
       /\ msgs[Len(msgs)].Role = "user"
       /\ BlockIDs(msgs[Len(msgs)], "tool_result") = <<toolCalls[1].ID, toolCalls[2].ID>>
       /\ msgs[Len(msgs)].Blocks[1].IsError
       /\ ~msgs[Len(msgs)].Blocks[2].IsError
       /\ msgs[Len(msgs) - 1].Role = "assistant"
       /\ msgs[Len(msgs) - 1].Blocks[1].Type = "text"
       /\ BlockIDs(msgs[Len(msgs) - 1], "tool_use") = <<toolCalls[1].ID, toolCalls[2].ID>>
    /\ outcomes[1].kind # "executed"
    /\ outcomes[2].kind = "executed"

\* C31: whenever a session is evicted while an engine is waiting, or is
\* about to wait, on a pending confirmation registered for that session,
\* the engine receives a denial and does not hang until its own
\* confirmation timeout: an engine that waits on a session that is no
\* longer stored has a decision on its result channel.
C31_EvictionDeniesWaiter ==
    (pc = "wait" /\ sessID \notin DOMAIN sessions) => resultCh[tc.ID] # <<>>

\* C32: nothing inside the agentic loop panics the request: for every
\* (result, error) pair that a registered tool's Execute can return, a nil
\* result together with a nil error included, executeToolCall turns the
\* outcome into a ToolResult that is fed back to the model as data.
C32_ToolOutcomeBecomesData ==
    /\ pc # "panicked"
    /\ \A i \in 1..Len(outcomes) : outcomes[i].kind # "panic"

\* The fragments the provider streamed for block i, in order.
OwnFragments(i) ==
    LET F[n \in 0..Len(eventCh)] ==
            IF n = 0 THEN <<>>
            ELSE IF eventCh[n].Type = "input_json_delta" /\ eventCh[n].Index = i
                 THEN Append(F[n - 1], eventCh[n].PartialJSON)
                 ELSE F[n - 1]
    IN F[Len(eventCh)]

\* C33: every tool_use content block that the provider starts in a turn is
\* committed exactly once to the turn's tool-call list, with its own id and
\* name and with the concatenation of exactly its own input_json_delta
\* fragments, also when a second tool_use block starts before the
\* content_block_stop of the first.
C33_EveryBlockCommittedOnce ==
    pc = "ranged" =>
        \A i \in {1, 2} :
            /\ Cardinality({n \in 1..Len(toolCalls) : toolCalls[n].ID = i}) = 1
            /\ \A n \in 1..Len(toolCalls) :
                  toolCalls[n].ID = i =>
                      /\ toolCalls[n].Name = BlockName(i)
                      /\ toolCalls[n].Input = OwnFragments(i)

\* C34: ResolveConfirmation on an existing pending entry removes the entry
\* from the session's table before the decision becomes visible on the
\* result channel; the value delivered equals the approved argument unless
\* the channel already holds a decision, in which case the earlier decision
\* is kept; the call neither blocks nor fails.
C34_RemoveThenSend ==
    /\ [][(lastCall.phase = "removed" /\ lastCall'.phase = "done") =>
            /\ lastCall.tcid \notin lastCall.orphan
            /\ (lastCall.held = "stored" /\ lastCall.sid \in DOMAIN sessions) =>
                   lastCall.tcid \notin sessions[lastCall.sid].PendingConfirmations
            /\ resultCh'[lastCall.tcid] = IF resultCh[lastCall.tcid] = <<>>
                                          THEN <<lastCall.approved>>
                                          ELSE resultCh[lastCall.tcid]
            /\ lastCall'.ok]_vars
    /\ [][(lastCall.phase # "removed" /\ lastCall.phase' # "removed") =>
            \A c \in DOMAIN resultCh :
                Len(resultCh'[c]) > Len(resultCh[c]) => resultCh'[c] = <<FALSE>>]_vars
    /\ (lastCall.phase = "removed" ~> lastCall.phase = "done")

\* A call that found the entry, removed it, and whose approval met the
\* denial an eviction had put on the channel: the denial stayed.
C34_Witness ==
    /\ lastCall.phase = "done"
    /\ lastCall.ok
    /\ lastCall.approved
    /\ lastCall.before = <<FALSE>>
    /\ resultCh[lastCall.tcid] = <<FALSE>>

(***************************************************************************)
(* The operations that take a session id, called with stored and with      *)
(* unknown ids (SpecUnknown): each reports whether it returned an error.   *)
(***************************************************************************)
UnkAddMessage ==
    \E sessionID \in SessionIDs :
        /\ sessions' = AddMessage(sessions, sessionID, Message("user", <<TextBlock>>), now)
        /\ lastCall' = [NoStoreCall EXCEPT !.op = "AddMessage", !.sid = sessionID,
                                           !.ok = sessionID \in DOMAIN sessions]
        /\ UNCHANGED <<resultCh, now, expiredIDs, cleanupPc, created>>

UnkGetMessages ==
    \E sessionID \in SessionIDs :
        /\ lastCall' = [NoStoreCall EXCEPT !.op = "GetMessages", !.sid = sessionID,
                                           !.ok = GetMessages(sessions, sessionID) # NotFound]
        /\ UNCHANGED <<sessions, resultCh, now, expiredIDs, cleanupPc, created>>

UnkValidateSessionOwner ==
    \E sessionID \in SessionIDs, userID \in GateUsers :
        /\ lastCall' = [NoStoreCall EXCEPT !.op = "ValidateSessionOwner", !.sid = sessionID,
                                           !.ok = ValidateSessionOwner(sessions, sessionID,
                                                                       userID)]
        /\ UNCHANGED <<sessions, resultCh, now, expiredIDs, cleanupPc, created>>

NextUnknown ==
    \/ PendGetOrCreate /\ UNCHANGED <<chatVars, auxVars>>
    \/ PendAddPending /\ UNCHANGED <<chatVars, auxVars>>
    \/ PendResolve /\ UNCHANGED <<chatVars, auxVars>>
    \/ UnkAddMessage /\ UNCHANGED <<chatVars, auxVars>>
    \/ UnkGetMessages /\ UNCHANGED <<chatVars, auxVars>>
    \/ UnkValidateSessionOwner /\ UNCHANGED <<chatVars, auxVars>>

SpecUnknown == InitSpecSM /\ [][NextUnknown]_vars

NumThreads == 2
MaxCreates == 3                 \* Session objects made before GetOrCreate stops being called
MaxAdds == 2                    \* AddMessage calls made
Threads == 1..NumThreads
LockIDs == {"s", "t"}
NoPtr == <<>>
Idle == [op |-> "idle", pc |-> "idle", id |-> "", user |-> "", ptr |-> NoPtr,
         todo |-> {}, exp |-> {}, old |-> "", oldT |-> 0, arg |-> 0, t0 |-> 0]

LookupOps == {"Get", "GetMessages", "ValidateSessionOwner", "AddMessage",
              "AddPendingConfirmation", "ResolveConfirmation"}

\* sync.RWMutex: RLock waits for the writer and for a writer that waits
RLockFree(m) == m.w = 0 /\ m.q = {}
RLock(m, t) == [m EXCEPT !.r = @ \cup {t}]
RUnlockForgotten(m, t) == m
RUnlock(m, t) == [m EXCEPT !.r = @ \ {t}]
\* Lock announces itself, then waits for the writer and the readers to leave
LockAnnounce(m, t) == [m EXCEPT !.q = @ \cup {t}]
LockFree(m) == m.w = 0 /\ m.r = {}
Lock(m, t) == [m EXCEPT !.w = t, !.q = @ \ {t}]
Unlock(m, t) == [m EXCEPT !.w = 0]
\* sync.Mutex of the Session object k
SFree(m, k) == \A p \in m.s : p[1] # k
SLock(m, k, t) == [m EXCEPT !.s = @ \cup {<<k, t>>}]
SUnlock(m, k, t) == [m EXCEPT !.s = @ \ {<<k, t>>}]

\* The object stored under id, and what a pointer designates
GenOf(m, id) == IF id \in DOMAIN m.gen THEN m.gen[id] ELSE 0
Key(m, id) == <<id, GenOf(m, id)>>
RECURSIVE SumGen(_, _)
SumGen(g, D) == IF D = {} THEN 0 ELSE LET x == CHOOSE y \in D : TRUE IN g[x] + SumGen(g, D \ {x})
Created(m) == SumGen(m.gen, DOMAIN m.gen)
IsStored(k) == k[1] \in DOMAIN sessions /\ k = Key(mu, k[1])
Obj(k) == IF IsStored(k) THEN sessions[k[1]] ELSE mu.orph[k]
One(k) == [x \in {k[1]} |-> Obj(k)]
SessAfter(k, rec) == IF IsStored(k) THEN [sessions EXCEPT ![k[1]] = rec] ELSE sessions
MuAfter(m, k, rec) == IF IsStored(k) THEN m ELSE [m EXCEPT !.orph[k] = rec]
\* delete(sm.sessions, id): the object stays reachable through pointers
Orphan(m, k, rec) == [m EXCEPT !.orph = [x \in DOMAIN @ \cup {k} |-> IF x = k THEN rec ELSE @[x]]]
Collect(m, th) ==
    [m EXCEPT !.orph = [k \in {x \in DOMAIN @ : \E u \in DOMAIN th : th[u].ptr = x} |-> @[k]]]

\* One step of goroutine t: its locals become th, the locks become m.
ThreadStep(t, th, m) ==
    /\ threads' = [threads EXCEPT ![t] = th]
    /\ mu' = Collect(m, threads')

lockRest == UNCHANGED <<expiredIDs, cleanupPc, lastCall, created, chatVars, toolVars,
                        provVars, gateVars, sliceVars>>

\* The calls a goroutine can make.
CallsOf(ids, gocIDs) ==
    [op : LookupOps \ {"ValidateSessionOwner"}, id : ids, user : {""}]
    \cup [op : {"ValidateSessionOwner"}, id : ids, user : {"b"}]
    \cup [op : {"GetOrCreate"}, id : gocIDs \ {"s"}, user : {""}]
    \cup [op : {"GetOrCreate"}, id : gocIDs \cap {"s"}, user : {"b"}]
    \cup [op : {"CleanupExpired"}, id : {""}, user : {""}]

\* A goroutine enters a call.  GetOrCreate starts with sm.mu.Lock()
\* (manager.go:86), the others with sm.mu.RLock(); the caller of
\* AddPendingConfirmation makes the pending and its channel first.
Call(t, c, maxAdds, maxPend) ==
    /\ threads[t].op = "idle"
    /\ c.op = "AddMessage" => Len(addCalls) < maxAdds
    /\ c.op = "AddPendingConfirmation" => \E tcid \in 1..maxPend : tcid \notin DOMAIN resultCh
    /\ c.op = "GetOrCreate" =>
          Created(mu) + Cardinality({u \in Threads : threads[u].op = "GetOrCreate"}) < MaxCreates
    /\ LET n == IF c.op = "AddMessage" THEN Len(addCalls) + 1
                ELSE IF c.op = "AddPendingConfirmation"
                     THEN CHOOSE tcid \in 1..maxPend :
                              /\ tcid \notin DOMAIN resultCh
                              /\ \A o \in 1..maxPend : o \notin DOMAIN resultCh => tcid <= o
                ELSE IF c.op = "ResolveConfirmation" THEN 1
                ELSE 0
       IN
       /\ ThreadStep(t, [Idle EXCEPT !.op = c.op, !.id = c.id, !.user = c.user, !.arg = n,
                                     !.t0 = IF c.op = "CleanupExpired" THEN now ELSE 0,
                                     !.pc = IF c.op = "GetOrCreate" THEN "lock" ELSE "rlock"],
                     IF c.op = "GetOrCreate" THEN LockAnnounce(mu, t) ELSE mu)
       /\ addCalls' = IF c.op = "AddMessage"
                      THEN Append(addCalls, [id |-> c.id, msg |-> n]) ELSE addCalls
       /\ resultCh' = IF c.op = "AddPendingConfirmation"
                      THEN Put(resultCh, n, <<>>) ELSE resultCh
    /\ UNCHANGED <<sessions, now>>

\* sm.mu.RLock() (manager.go:171, 185, 202, 220, 244, 260, 293)
AcquireRLock(t) ==
    LET th == threads[t] IN
    /\ th.pc = "rlock"
    /\ RLockFree(mu)
    /\ ThreadStep(t, [th EXCEPT !.pc = IF th.op = "CleanupExpired" THEN "scan" ELSE "lookup",
                                !.todo = IF th.op = "CleanupExpired"
                                         THEN DOMAIN sessions ELSE {}],
                  RLock(mu, t))
    /\ UNCHANGED <<sessions, resultCh, now, addCalls>>

\* s, ok := sm.sessions[id]; sm.mu.RUnlock(); return on !ok
LkLookup(t) ==
    LET th == threads[t] IN
    /\ th.pc = "lookup"
    /\ IF th.id \in DOMAIN sessions
       THEN ThreadStep(t, [th EXCEPT !.pc = "slock", !.ptr = Key(mu, th.id)], RUnlock(mu, t))
       ELSE ThreadStep(t, Idle, RUnlock(mu, t))
    /\ UNCHANGED <<sessions, resultCh, now, addCalls>>

\* s.mu.Lock() on the object looked up
LkSLock(t) ==
    LET th == threads[t] IN
    /\ th.pc = "slock"
    /\ SFree(mu, th.ptr)
    /\ ThreadStep(t, [th EXCEPT !.pc = "work"], SLock(mu, th.ptr, t))
    /\ UNCHANGED <<sessions, resultCh, now, addCalls>>

\* The message AddMessage call n carries
CallMessage(n) == Message("user", <<[Type |-> "text", ID |-> n, IsError |-> FALSE]>>)

\* What the call does to the object it holds locked
WorkOn(th, o) ==
    LET id == th.id
        one == [x \in {id} |-> o] IN
    IF th.op = "Get" THEN Get(one, id, now)[id]
    ELSE IF th.op = "AddMessage" THEN AddMessage(one, id, CallMessage(th.arg), now)[id]
    ELSE IF th.op = "AddPendingConfirmation" THEN AddPendingConfirmation(one, id, th.arg)[id]
    ELSE IF th.op = "ResolveConfirmation"
         THEN ResolveConfirmation(one, resultCh, id, th.arg, TRUE).sessions[id]
    ELSE o

\* The body under s.mu, then s.mu.Unlock(); ResolveConfirmation goes on to
\* its send when it found the pending (manager.go:268-275).
LkWork(t) ==
    LET th == threads[t]
        o == Obj(th.ptr)
        rec == WorkOn(th, o)
        sends == th.op = "ResolveConfirmation" /\ th.arg \in o.PendingConfirmations IN
    /\ th.pc = "work"
    /\ sessions' = SessAfter(th.ptr, rec)
    /\ ThreadStep(t, IF sends THEN [th EXCEPT !.pc = "send", !.ptr = NoPtr] ELSE Idle,
                  SUnlock(MuAfter(mu, th.ptr, rec), th.ptr, t))
    /\ UNCHANGED <<resultCh, now, addCalls>>

\* manager.go:279-284, outside every lock
LkSend(t) ==
    LET th == threads[t] IN
    /\ th.pc = "send"
    /\ resultCh' = SendNonBlocking(resultCh, {th.arg}, TRUE)
    /\ ThreadStep(t, Idle, mu)
    /\ UNCHANGED <<sessions, now, addCalls>>

\* sm.mu.Lock() returns (manager.go:86, 310)
AcquireLock(t) ==
    LET th == threads[t] IN
    /\ th.pc = "lock"
    /\ LockFree(mu)
    /\ ThreadStep(t, [th EXCEPT !.pc = IF th.op = "GetOrCreate" THEN "goc" ELSE "sweep"],
                  Lock(mu, t))
    /\ UNCHANGED <<sessions, resultCh, now, addCalls>>

\* manager.go:89 and 122: found, full, or room for a new session
GocLookup(t) ==
    LET th == threads[t] IN
    /\ th.pc = "goc"
    /\ ThreadStep(t, IF th.id \in DOMAIN sessions
                     THEN [th EXCEPT !.pc = "goc-slock", !.ptr = Key(mu, th.id)]
                     ELSE IF Cardinality(DOMAIN sessions) >= MaxSessions
                          THEN [th EXCEPT !.pc = "scan", !.todo = DOMAIN sessions]
                          ELSE [th EXCEPT !.pc = "create"],
                  mu)
    /\ UNCHANGED <<sessions, resultCh, now, addCalls>>

\* manager.go:90 and 97: s.mu.Lock() under the write lock
GocSLock(t) ==
    LET th == threads[t] IN
    /\ th.pc \in {"goc-slock", "slock2"}
    /\ SFree(mu, th.ptr)
    /\ ThreadStep(t, [th EXCEPT !.pc = IF th.pc = "goc-slock" THEN "owner" ELSE "touch2"],
                  SLock(mu, th.ptr, t))
    /\ UNCHANGED <<sessions, resultCh, now, addCalls>>

\* manager.go:91-119: the ownership test with the session locked
GocOwner(t) ==
    LET th == threads[t]
        o == Obj(th.ptr)
        d == DerivedID(th.id, th.user)
        m == SUnlock(mu, th.ptr, t) IN
    /\ th.pc = "owner"
    /\ IF OwnerConflict(o, th.user)
       THEN /\ ThreadStep(t, IF d \in DOMAIN sessions
                             THEN [th EXCEPT !.pc = "slock2", !.id = d, !.ptr = Key(mu, d)]
                             ELSE [th EXCEPT !.pc = "create", !.id = d, !.ptr = NoPtr],
                          m)
            /\ UNCHANGED sessions
       ELSE /\ sessions' = Touch(sessions, th.id, ChatModeAgent, now)
            /\ ThreadStep(t, [th EXCEPT !.pc = "unlock", !.ptr = NoPtr], m)
    /\ UNCHANGED <<resultCh, now, addCalls>>

\* manager.go:97-101: the derived session exists
GocTouch2(t) ==
    LET th == threads[t] IN
    /\ th.pc = "touch2"
    /\ sessions' = Touch(sessions, th.id, ChatModeAgent, now)
    /\ ThreadStep(t, [th EXCEPT !.pc = "unlock", !.ptr = NoPtr], SUnlock(mu, th.ptr, t))
    /\ UNCHANGED <<resultCh, now, addCalls>>

\* for id, s := range sm.sessions { s.mu.Lock() ... (manager.go:144-145, 295-296)
ScanLock(t) ==
    LET th == threads[t] IN
    /\ th.pc = "scan"
    /\ \E id \in th.todo :
          /\ SFree(mu, Key(mu, id))
          /\ ThreadStep(t, [th EXCEPT !.pc = "scanned", !.ptr = Key(mu, id)],
                        SLock(mu, Key(mu, id), t))
    /\ UNCHANGED <<sessions, resultCh, now, addCalls>>

\* ... read LastAccessedAt; s.mu.Unlock() } (manager.go:146-152, 297-302)
ScanRead(t) ==
    LET th == threads[t]
        id == th.ptr[1]
        accessed == Obj(th.ptr).LastAccessedAt
        older == th.old = "" \/ accessed < th.oldT IN
    /\ th.pc = "scanned"
    /\ ThreadStep(t, IF th.op = "CleanupExpired"
                     THEN [th EXCEPT !.pc = "scan", !.ptr = NoPtr, !.todo = @ \ {id},
                                     !.exp = IF th.t0 - accessed > SessionTimeout
                                             THEN @ \cup {id} ELSE @]
                     ELSE [th EXCEPT !.pc = "scan", !.ptr = NoPtr, !.todo = @ \ {id},
                                     !.old = IF older THEN id ELSE @,
                                     !.oldT = IF older THEN accessed ELSE @],
                  SUnlock(mu, th.ptr, t))
    /\ UNCHANGED <<sessions, resultCh, now, addCalls>>

\* manager.go:155-157: s := sm.sessions[oldestID]; s.mu.Lock()
EvictSLock(t) ==
    LET th == threads[t] IN
    /\ th.op = "GetOrCreate"
    /\ th.pc = "scan"
    /\ th.todo = {}
    /\ SFree(mu, Key(mu, th.old))
    /\ ThreadStep(t, [th EXCEPT !.pc = "evict", !.ptr = Key(mu, th.old)],
                  SLock(mu, Key(mu, th.old), t))
    /\ UNCHANGED <<sessions, resultCh, now, addCalls>>

\* manager.go:158-165: the denials, s.mu.Unlock(), delete
EvictDelete(t) ==
    LET th == threads[t]
        r == evictLRU(sessions, resultCh, th.old) IN
    /\ th.pc = "evict"
    /\ sessions' = r.sessions
    /\ resultCh' = r.resultCh
    /\ ThreadStep(t, [th EXCEPT !.pc = "create", !.ptr = NoPtr, !.old = "", !.oldT = 0],
                  SUnlock(Orphan(mu, th.ptr, sessions[th.old]), th.ptr, t))
    /\ UNCHANGED <<now, addCalls>>

\* manager.go:103-112 and 126-135: the new Session goes into the map
GocCreate(t) ==
    LET th == threads[t] IN
    /\ th.pc = "create"
    /\ sessions' = Put(sessions, th.id, NewSession(th.id, th.user, ChatModeAgent, now))
    /\ ThreadStep(t, [th EXCEPT !.pc = "unlock"],
                  [mu EXCEPT !.gen = [x \in DOMAIN @ \cup {th.id} |->
                                         IF x = th.id THEN GenOf(mu, x) + 1 ELSE @[x]]])
    /\ UNCHANGED <<resultCh, now, addCalls>>

\* defer sm.mu.Unlock() (manager.go:87, 311)
ReleaseLock(t) ==
    LET th == threads[t] IN
    /\ th.pc = "unlock"
    /\ ThreadStep(t, Idle, Unlock(mu, t))
    /\ UNCHANGED <<sessions, resultCh, now, addCalls>>

\* manager.go:303-310: sm.mu.RUnlock(); nothing expired, or sm.mu.Lock()
ClScanDone(t) ==
    LET th == threads[t] IN
    /\ th.op = "CleanupExpired"
    /\ th.pc = "scan"
    /\ th.todo = {}
    /\ IF th.exp = {}
       THEN ThreadStep(t, Idle, RUnlock(mu, t))
       ELSE ThreadStep(t, [th EXCEPT !.pc = "lock"], LockAnnounce(RUnlock(mu, t), t))
    /\ UNCHANGED <<sessions, resultCh, now, addCalls>>

\* manager.go:312-316: the session is gone already
ClSweepSkip(t) ==
    LET th == threads[t] IN
    /\ th.pc = "sweep"
    /\ \E id \in th.exp :
          /\ id \notin DOMAIN sessions
          /\ ThreadStep(t, [th EXCEPT !.exp = @ \ {id},
                                      !.pc = IF th.exp = {id} THEN "unlock" ELSE "sweep"],
                        mu)
    /\ UNCHANGED <<sessions, resultCh, now, addCalls>>

\* manager.go:317: s.mu.Lock() under the write lock
ClSweepLock(t) ==
    LET th == threads[t] IN
    /\ th.pc = "sweep"
    /\ \E id \in th.exp :
          /\ id \in DOMAIN sessions
          /\ SFree(mu, Key(mu, id))
          /\ ThreadStep(t, [th EXCEPT !.pc = "sweeping", !.ptr = Key(mu, id)],
                        SLock(mu, Key(mu, id), t))
    /\ UNCHANGED <<sessions, resultCh, now, addCalls>>

\* manager.go:318-329: the re-check, the denials, delete, s.mu.Unlock()
ClSweepDelete(t) ==
    LET th == threads[t]
        id == th.ptr[1]
        o == Obj(th.ptr)
        next == [th EXCEPT !.ptr = NoPtr, !.exp = @ \ {id},
                           !.pc = IF th.exp = {id} THEN "unlock" ELSE "sweep"] IN
    /\ th.pc = "sweeping"
    /\ IF Expired(o, now)
       THEN /\ resultCh' = SendNonBlocking(resultCh, o.PendingConfirmations, FALSE)
            /\ sessions' = Delete(sessions, id)
            /\ ThreadStep(t, next, SUnlock(Orphan(mu, th.ptr, o), th.ptr, t))
       ELSE /\ UNCHANGED <<sessions, resultCh>>
            /\ ThreadStep(t, next, SUnlock(mu, th.ptr, t))
    /\ UNCHANGED <<now, addCalls>>

\* time passes: nobody calls for longer than SessionTimeout
LockTick ==
    /\ now + SessionTimeout + 1 <= MaxTime
    /\ now' = now + SessionTimeout + 1
    /\ UNCHANGED <<sessions, resultCh, lockVars>>

\* The steps of the goroutines, whatever call they are in.
Progress(t) ==
    \/ AcquireRLock(t) \/ LkLookup(t) \/ LkSLock(t) \/ LkWork(t) \/ LkSend(t)
    \/ AcquireLock(t) \/ GocLookup(t) \/ GocSLock(t) \/ GocOwner(t) \/ GocTouch2(t)
    \/ ScanLock(t) \/ ScanRead(t) \/ EvictSLock(t) \/ EvictDelete(t) \/ GocCreate(t)
    \/ ReleaseLock(t) \/ ClScanDone(t) \/ ClSweepSkip(t) \/ ClSweepLock(t)
    \/ ClSweepDelete(t)

\* One session is stored, made for identity "a" by an earlier GetOrCreate.
InitSpecLocks ==
    /\ sessions = [id \in {"s"} |-> NewSession("s", "a", ChatModeAgent, 0)]
    /\ resultCh = EmptyMap
    /\ now = 0
    /\ expiredIDs = {}
    /\ cleanupPc = "idle"
    /\ lastCall = NoCallYet
    /\ created = {}
    /\ reqMode = ChatModeAsk
    /\ InitChatVars
    /\ InitTools
    /\ InitProvider
    /\ InitGate
    /\ InitSlices
    /\ threads = [t \in Threads |-> Idle]
    /\ mu = [FreeLocks EXCEPT !.gen = [id \in {"s"} |-> 1]]
    /\ addCalls = <<>>

NextLocks ==
    \/ \E t \in Threads, c \in CallsOf({"s"}, LockIDs) : Call(t, c, 1, 1) /\ lockRest
    \/ \E t \in Threads : AcquireRLock(t) /\ lockRest
    \/ \E t \in Threads : LkLookup(t) /\ lockRest
    \/ \E t \in Threads : LkSLock(t) /\ lockRest
    \/ \E t \in Threads : LkWork(t) /\ lockRest
    \/ \E t \in Threads : LkSend(t) /\ lockRest
    \/ \E t \in Threads : AcquireLock(t) /\ lockRest
    \/ \E t \in Threads : GocLookup(t) /\ lockRest
    \/ \E t \in Threads : GocSLock(t) /\ lockRest
    \/ \E t \in Threads : GocOwner(t) /\ lockRest
    \/ \E t \in Threads : GocTouch2(t) /\ lockRest
    \/ \E t \in Threads : ScanLock(t) /\ lockRest
    \/ \E t \in Threads : ScanRead(t) /\ lockRest
    \/ \E t \in Threads : EvictSLock(t) /\ lockRest
    \/ \E t \in Threads : EvictDelete(t) /\ lockRest
    \/ \E t \in Threads : GocCreate(t) /\ lockRest
    \/ \E t \in Threads : ReleaseLock(t) /\ lockRest
    \/ \E t \in Threads : ClScanDone(t) /\ lockRest
    \/ \E t \in Threads : ClSweepSkip(t) /\ lockRest
    \/ \E t \in Threads : ClSweepLock(t) /\ lockRest
    \/ \E t \in Threads : ClSweepDelete(t) /\ lockRest
    \/ LockTick /\ lockRest

SpecLocks == InitSpecLocks /\ [][NextLocks]_vars

(***************************************************************************)
(* TestConcurrentAccess (manager_test.go:437-522) as a specification       *)
(* (SpecAdds): the session "s" is stored and in use, next to it a session  *)
(* "t" that has been idle for longer than SessionTimeout; the goroutines   *)
(* call AddMessage, Get, AddPendingConfirmation and ResolveConfirmation on *)
(* "s", GetOrCreate on other ids, and CleanupExpired.  The calls take no   *)
(* time on the clock, so "s" does not expire.                              *)
(***************************************************************************)
OtherIDs == {"t", "u"}

AddsCalls(gocIDs) ==
    [op : {"AddMessage", "Get", "AddPendingConfirmation", "ResolveConfirmation"},
     id : {"s"}, user : {""}]
    \cup [op : {"GetOrCreate"}, id : gocIDs, user : {""}]
    \cup [op : {"CleanupExpired"}, id : {""}, user : {""}]

InitAdds ==
    /\ sessions = [id \in {"s", "t"} |->
                      NewSession(id, "", ChatModeAsk, IF id = "s" THEN MaxTime ELSE 0)]
    /\ resultCh = EmptyMap
    /\ now = MaxTime
    /\ expiredIDs = {}
    /\ cleanupPc = "idle"
    /\ lastCall = NoCallYet
    /\ created = {}
    /\ reqMode = ChatModeAsk
    /\ InitChatVars
    /\ InitTools
    /\ InitProvider
    /\ InitGate
    /\ InitSlices
    /\ threads = [t \in Threads |-> Idle]
    /\ mu = [FreeLocks EXCEPT !.gen = [id \in {"s", "t"} |-> 1]]
    /\ addCalls = <<>>

NextAdds ==
    \/ \E t \in Threads, c \in AddsCalls(OtherIDs) : Call(t, c, MaxAdds, 1) /\ lockRest
    \/ \E t \in Threads : AcquireRLock(t) /\ lockRest
    \/ \E t \in Threads : LkLookup(t) /\ lockRest
    \/ \E t \in Threads : LkSLock(t) /\ lockRest
    \/ \E t \in Threads : LkWork(t) /\ lockRest
    \/ \E t \in Threads : LkSend(t) /\ lockRest
    \/ \E t \in Threads : AcquireLock(t) /\ lockRest
    \/ \E t \in Threads : GocLookup(t) /\ lockRest
    \/ \E t \in Threads : GocSLock(t) /\ lockRest
    \/ \E t \in Threads : GocOwner(t) /\ lockRest
    \/ \E t \in Threads : ScanLock(t) /\ lockRest
    \/ \E t \in Threads : ScanRead(t) /\ lockRest
    \/ \E t \in Threads : GocCreate(t) /\ lockRest
    \/ \E t \in Threads : ReleaseLock(t) /\ lockRest
    \/ \E t \in Threads : ClScanDone(t) /\ lockRest
    \/ \E t \in Threads : ClSweepSkip(t) /\ lockRest
    \/ \E t \in Threads : ClSweepLock(t) /\ lockRest
    \/ \E t \in Threads : ClSweepDelete(t) /\ lockRest
    \/ \E t \in Threads : EvictSLock(t) /\ lockRest
    \/ \E t \in Threads : EvictDelete(t) /\ lockRest

SpecAdds == InitAdds /\ [][NextAdds]_vars

(***************************************************************************)
(* The MCP server (mcp/client.go:216-328) over the tool registry           *)
(* (SpecMCP).  Built-in tools and the adapters of external MCP servers     *)
(* (mcp/manager.go:177-189) are registered at any time; a client posts     *)
(* tools/call with any name.  executed holds every Execute invocation,     *)
(* which is the only way a call acts on the platform.                      *)
(***************************************************************************)
McpAdapterNames == {"mcp_srv_echo"}
\* params["name"] of a tools/call request; "" when the field is missing
McpCallNames == ToolUniverse \cup McpAdapterNames \cup {"bogus_tool", ""}
McpRequestIDs == {1, 2}
InvalidParams == 0 - 32602

\* What Execute returns: a result, a result with IsError, or an error
McpExecuteOutcomes == {"result", "errorResult", "err"}

\* mcp/manager.go:180-187: the adapter of an external tool is registered
RegisterAdapter ==
    \E tool \in McpAdapterNames :
        /\ registry' = registry \cup {tool}
        /\ listed' = [m \in RequestModes |-> NotListed]
        /\ UNCHANGED probed

\* client.go:304-308: only a read-only tool is executed
CallableViaMCPAlways(name) == TRUE
CallableViaMCP(name) == IsReadOnly(name)

\* client.go:294-328
handleCallTool ==
    \E name \in McpCallNames, id \in McpRequestIDs, out \in McpExecuteOutcomes :
        IF ~RegistryGet(name)
        THEN /\ lastCall' = [op |-> "tools/call", id |-> id, name |-> name,
                             error |-> InvalidParams, isError |-> FALSE, why |-> "unknown"]
             /\ UNCHANGED executed
        ELSE IF ~CallableViaMCP(name)
        THEN /\ lastCall' = [op |-> "tools/call", id |-> id, name |-> name,
                             error |-> InvalidParams, isError |-> FALSE, why |-> "mutating"]
             /\ UNCHANGED executed
        ELSE /\ executed' = executed \cup {[id |-> id, name |-> name, mode |-> 0]}
             /\ lastCall' = [op |-> "tools/call", id |-> id, name |-> name,
                             error |-> 0, isError |-> out # "result", why |-> out]

mcpRest ==
    UNCHANGED <<sessions, resultCh, now, expiredIDs, cleanupPc, created, reqMode, mode, pc,
                iteration, toolDefs, eventCh, errCh, textContent, currentToolCall, toolCalls,
                stopReason, tcIdx, toolResults, ctxDone, retErr, sessID, nextId, sse,
                providerLog, outcomes, received, cancelledAt, providerFailed, provVars,
                gateVars, sliceVars, lockVars>>

NextMCP ==
    \/ Register /\ UNCHANGED <<lastCall, executed>> /\ mcpRest
    \/ RegisterAdapter /\ UNCHANGED <<lastCall, executed>> /\ mcpRest
    \/ handleCallTool /\ UNCHANGED toolVars /\ mcpRest

SpecMCP == InitSpecTools /\ [][NextMCP]_vars

\* The confirmation_request for the tool call in hand is on the stream.
ConfirmationRequested ==
    \E n \in 1..Len(sse) : sse[n].type = "confirmation_request" /\ sse[n].id = tc.ID

\* C36: an approval for tool call T that arrives at any time after the
\* confirmation_request for T has been sent finds T registered as pending
\* and its decision reaches the waiting engine; it is never rejected as an
\* unknown pending call.  Stated while T is undecided: the session is
\* stored, no decision is on T's channel and the engine has not left the
\* wait.
C36_ApprovalFindsPending ==
    (/\ pc \in {"addpending", "wait"}
     /\ ConfirmationRequested
     /\ sessID \in DOMAIN sessions
     /\ resultCh[tc.ID] = <<>>)
    => \A approved \in BOOLEAN :
          LET r == ResolveConfirmation(sessions, resultCh, sessID, tc.ID, approved) IN
          /\ r.ok
          /\ r.resultCh[tc.ID] = <<approved>>

\* C37: when executeToolCall returns for tool call T, on any branch
\* (approved, denied, timed out, context cancelled), the session's pending
\* table holds no entry for T, so an approval sent afterwards for T is
\* answered as an unknown pending call.
C37_NoPendingOutlivesWaiter ==
    [][Len(outcomes') > Len(outcomes) =>
         LET o == outcomes'[Len(outcomes')] IN
         sessID \in DOMAIN sessions' =>
            /\ o.id \notin sessions'[sessID].PendingConfirmations
            /\ ~ResolveConfirmation(sessions', resultCh', sessID, o.id, TRUE).ok]_vars

\* The locks goroutine t holds, and whether its next statement can run.  A
\* range over the map or over expiredIDs takes its ids in an order the
\* goroutine does not choose, so it can run for sure only when every
\* session it may come to is unlocked.
HoldsManager(m, t) == m.w = t \/ t \in m.r
HoldsSession(m, t) == \E p \in m.s : p[2] = t
CanStep(t) ==
    LET th == threads[t] IN
    IF th.pc = "rlock" THEN RLockFree(mu)
    ELSE IF th.pc = "lock" THEN LockFree(mu)
    ELSE IF th.pc \in {"slock", "goc-slock", "slock2"} THEN SFree(mu, th.ptr)
    ELSE IF th.pc = "scan" /\ th.todo # {} THEN \A id \in th.todo : SFree(mu, Key(mu, id))
    ELSE IF th.pc = "scan" /\ th.op = "GetOrCreate" THEN SFree(mu, Key(mu, th.old))
    ELSE IF th.pc = "sweep"
         THEN \A id \in th.exp : id \in DOMAIN sessions => SFree(mu, Key(mu, id))
    ELSE th.pc # "idle"

\* C38: no interleaving of concurrent GetOrCreate, Get, GetMessages,
\* AddMessage, AddPendingConfirmation, ResolveConfirmation,
\* ValidateSessionOwner and CleanupExpired calls deadlocks (whenever a
\* goroutine is inside a call, some goroutine can take its next step); a
\* goroutine takes or waits for the manager lock only while it holds no
\* session lock, and a goroutine that holds a lock never waits on a channel.
C38_NoDeadlock ==
    /\ []((\E t \in Threads : threads[t].op # "idle") => \E t \in Threads : CanStep(t))
    /\ [](\A t \in Threads :
             /\ threads[t].pc \in {"rlock", "lock"} => ~HoldsSession(mu, t)
             /\ (HoldsManager(mu, t) \/ HoldsSession(mu, t)) => threads[t].pc # "send")
    /\ [][\A t \in Threads :
             (HoldsManager(mu', t) /\ ~HoldsManager(mu, t)) => ~HoldsSession(mu', t)]_vars

\* A GetOrCreate holds the manager's write lock and waits for the lock of
\* the session it found, which a call of the other goroutine holds.
C38_Witness ==
    \E t \in Threads, u \in Threads :
        /\ threads[t].pc = "goc-slock"
        /\ mu.w = t
        /\ threads[u].pc = "work"
        /\ <<threads[t].ptr, u>> \in mu.s

\* Every goroutine has returned from its call.
AllReturned == \A t \in Threads : threads[t].op = "idle"
\* The session's log holds the message of every AddMessage call made, once.
HoldsEveryMessage(id) ==
    /\ id \in DOMAIN sessions
    /\ Len(sessions[id].Messages) = Len(addCalls)
    /\ \A n \in 1..Len(addCalls) :
          \E i \in 1..Len(sessions[id].Messages) : sessions[id].Messages[i] = CallMessage(n)

\* C39 as stated: N concurrent AddMessage calls on one stored, non-expired
\* session, N at most MaxMessagesPerSession, running concurrently with Get,
\* GetOrCreate of other ids, pending add/resolve and CleanupExpired, all
\* take effect: afterwards the session still exists and its log holds
\* exactly the N messages.
C39_AllAddsTakeEffect ==
    (AllReturned /\ Len(addCalls) \in 1..MaxMessagesPerSession) => HoldsEveryMessage("s")

\* C39, amended: the same as long as the session is not evicted (with
\* MaxSessions sessions stored a GetOrCreate of another id evicts the least
\* recently used one, which can be this session): if the session is still
\* stored afterwards, its log holds exactly the N messages.
C39_AllAddsTakeEffectUnlessEvicted ==
    (AllReturned /\ Len(addCalls) \in 1..MaxMessagesPerSession /\ "s" \in DOMAIN sessions)
    => HoldsEveryMessage("s")

\* Two AddMessage calls ran concurrently and the one made second appended
\* first, while a GetOrCreate of "u" evicted another session.
C39_Witness ==
    /\ AllReturned
    /\ Len(addCalls) = MaxAdds
    /\ "s" \in DOMAIN sessions
    /\ Len(sessions["s"].Messages) = MaxAdds
    /\ sessions["s"].Messages[1] = CallMessage(MaxAdds)
    /\ "u" \in DOMAIN sessions

\* C40: the MCP server's tools/call never invokes Execute on a tool whose
\* IsReadOnly is false: such a call, and a call naming an unknown tool, is
\* answered with a JSON-RPC error and has no effect on the platform.
C40_McpExecutesReadOnlyOnly ==
    /\ [](\A e \in executed : RegistryGet(e.name) /\ IsReadOnly(e.name))
    /\ [][(lastCall'.op = "tools/call"
           /\ (~RegistryGet(lastCall'.name) \/ ~IsReadOnly(lastCall'.name)))
          => /\ lastCall'.error = InvalidParams
             /\ executed' = executed]_vars

\* A registered mutating tool and the adapter of an external tool are both
\* registered, a read-only tool has been executed through the MCP server,
\* and the last call, naming the mutating tool, got the error.
C40_Witness ==
    /\ {"delete_run"} \cup McpAdapterNames \subseteq registry
    /\ executed # {}
    /\ lastCall.op = "tools/call"
    /\ lastCall.name = "delete_run"
    /\ lastCall.error = InvalidParams

====
